---- MODULE Spec2Model ----
(***************************************************************************)
(* A state-machine model of neo4j-mcp-installer: the install pipeline      *)
(* install_binary (src/neo4j_mcp_installer/installer.py) with its helper   *)
(* functions, run against a file system and a release host.                *)
(*                                                                         *)
(* One pipeline run is a sequence of steps, one per file-system or network *)
(* operation of the code, so that a crash can fall between any two of      *)
(* them.  Files hold abstract contents: an archive is a number a, its      *)
(* entries are ArchiveEntries(a), its digest is Sha256(a).                 *)
(***************************************************************************)
EXTENDS Naturals, Sequences, FiniteSets, TLC

(***************************************************************************)
(* Bounds of the model.                                                    *)
(***************************************************************************)
MaxRuns == 2        \* pipeline runs in one behaviour
HexLen == 2         \* length of a well-formed hex digest (64 in the code)
MaxLines == 3       \* lines of a checksums manifest, where every text is tried

Versions == {"v1", "v2"}
\* the archive contents the release host may serve, see ArchiveEntries
Archives == {1, 2, 3}

(***************************************************************************)
(* Target and detect_target.                                               *)
(***************************************************************************)
Target(os_name, arch, archive_ext) ==
    [os_name |-> os_name, arch |-> arch, archive_ext |-> archive_ext]

NoTarget == Target("", "", "")

asset_name(t) == "neo4j-mcp_" \o t.os_name \o "_" \o t.arch \o t.archive_ext

extracted_binary_name(t) ==
    IF t.os_name = "Windows" THEN "neo4j-mcp.exe" ELSE "neo4j-mcp"

\* str.lower() on the machine strings the model uses
MachineLower(m) ==
    CASE m = "AMD64"  -> "amd64"
      [] m = "ARM64"  -> "arm64"
      [] m = "X86_64" -> "x86_64"
      [] m = "I686"   -> "i686"
      [] m = "I386"   -> "i386"
      [] m = "X86"    -> "x86"
      [] m = "Aarch64" -> "aarch64"
      [] m = "RISCV64" -> "riscv64"
      [] OTHER        -> m

\* (mutant) the machine string is compared as reported, without lower()
detect_target_CaseSensitive(sysname, machine_raw) ==
    LET archive_ext == IF sysname = "Windows" THEN ".zip" ELSE ".tar.gz"
    IN  IF sysname \notin {"Darwin", "Linux", "Windows"}
        THEN [err |-> "UnsupportedOS", target |-> NoTarget]
        ELSE IF machine_raw \in {"arm64", "aarch64"}
        THEN [err |-> "", target |-> Target(sysname, "arm64", archive_ext)]
        ELSE IF machine_raw \in {"x86_64", "amd64"}
        THEN [err |-> "", target |-> Target(sysname, "x86_64", archive_ext)]
        ELSE IF machine_raw \in {"i386", "i686", "x86"}
        THEN [err |-> "", target |-> Target(sysname, "i386", archive_ext)]
        ELSE [err |-> "UnsupportedArch", target |-> NoTarget]

\* detect_target(): [err |-> "" or the error, target |-> the Target]
detect_target(sysname, machine_raw) ==
    LET machine == MachineLower(machine_raw)
        archive_ext == IF sysname = "Windows" THEN ".zip" ELSE ".tar.gz"
    IN  IF sysname \notin {"Darwin", "Linux", "Windows"}
        THEN [err |-> "UnsupportedOS", target |-> NoTarget]
        ELSE IF machine \in {"arm64", "aarch64"}
        THEN [err |-> "", target |-> Target(sysname, "arm64", archive_ext)]
        ELSE IF machine \in {"x86_64", "amd64"}
        THEN [err |-> "", target |-> Target(sysname, "x86_64", archive_ext)]
        ELSE IF machine \in {"i386", "i686", "x86"}
        THEN [err |-> "", target |-> Target(sysname, "i386", archive_ext)]
        ELSE [err |-> "UnsupportedArch", target |-> NoTarget]

\* os.name == "nt"
IsNt(sysname) == sysname = "Windows"

(***************************************************************************)
(* Storage locator: paths are sequences of path components.                *)
(***************************************************************************)
data_root == <<"data">>
versions_dir == Append(data_root, "versions")
\* text.split("/") of the version texts that are not one plain name
Segments(text) ==
    CASE text = "v1/"  -> << "v1", "" >>
      [] text = "./v1" -> << ".", "v1" >>
      [] text = "v1/x" -> << "v1", "x" >>
      [] text = "/abs" -> << "", "abs" >>
      [] OTHER         -> << text >>

IsName(seg) == seg \notin {"", "."}

\* (mutant) the text is appended as one component, as it is written
JoinPath_Verbatim(dir, text) == Append(dir, text)

\* dir / text of pathlib: empty and "." segments are dropped, and a text that
\* starts with the separator replaces dir
JoinPath(dir, text) ==
    LET segs == Segments(text)
    IN  IF Len(segs) > 1 /\ segs[1] = ""
        THEN << "/" >> \o SelectSeq(segs, IsName)
        ELSE dir \o SelectSeq(segs, IsName)

version_dir(version) == JoinPath(versions_dir, version)
archive_path(version, t) == Append(version_dir(version), asset_name(t))
extracted_path(version, t) == Append(version_dir(version), extracted_binary_name(t))

\* Path.with_suffix(suffix + ".tmp"): the same path with ".tmp" appended
TmpOf(p) == [p EXCEPT ![Len(p)] = p[Len(p)] \o ".tmp"]

\* the install directory of the runs (the caller's install_dir, or the default)
InstallDir == <<"bin">>
FinalPath(t) == Append(InstallDir, extracted_binary_name(t))
\* install_dir / (final_name + ".tmp")
TmpFinalPath(t) == Append(InstallDir, extracted_binary_name(t) \o ".tmp")

(***************************************************************************)
(* Files.  st: absent | partial | full; data: the complete content (an     *)
(* archive number, or the payload of a binary); x: the execute bits are    *)
(* set.  A partial file is one opened for writing and not yet closed.      *)
(***************************************************************************)
Absent == [st |-> "absent", data |-> 0, x |-> FALSE]
Partial == [st |-> "partial", data |-> 0, x |-> FALSE]
Full(d, x) == [st |-> "full", data |-> d, x |-> x]

Exists(f) == f.st # "absent"

\* the hosts a behaviour may run on: (platform.system(), platform.machine())
Hosts == { <<"Linux", "x86_64">>, <<"Windows", "AMD64">>, <<"FreeBSD", "amd64">> }

\* every path a run on target t can touch
PathsOf(t) ==
    UNION { { archive_path(v, t), TmpOf(archive_path(v, t)),
              extracted_path(v, t), TmpOf(extracted_path(v, t)) } : v \in Versions }
    \cup { FinalPath(t), TmpFinalPath(t) }

HostTarget(h) == detect_target(h[1], h[2]).target

(***************************************************************************)
(* Archives.  An entry has a base name (Path(name).name), is a regular     *)
(* file or not, and has a payload (the bytes read from it; 0 is b"").      *)
(***************************************************************************)
FileEntry(name, payload) == [name |-> name, isfile |-> TRUE, payload |-> payload]
DirEntry(name) == [name |-> name, isfile |-> FALSE, payload |-> 0]

\* the entries of archive a, in archive order
ArchiveEntries(a) ==
    CASE a = 1 -> << FileEntry("README.md", 1) >>
      [] a = 2 -> << DirEntry("neo4j-mcp"), FileEntry("neo4j-mcp", 2) >>
      [] a = 3 -> << FileEntry("README.md", 1), FileEntry("neo4j-mcp.exe", 3) >>
      [] a = 4 -> << FileEntry("neo4j-mcp.exe", 3), FileEntry("neo4j-mcp", 2) >>
      [] a = 5 -> << DirEntry("neo4j-mcp") >>
      [] OTHER -> << FileEntry("neo4j-mcp", a) >>

\* next((e for e in entries if pred(e)), None): index of the first match, 0 if none
RECURSIVE FirstFrom(_, _, _)
FirstFrom(entries, i, names) ==
    IF i > Len(entries) THEN 0
    ELSE IF entries[i].name \in names THEN i
    ELSE FirstFrom(entries, i + 1, names)

First(entries, names) == FirstFrom(entries, 1, names)

\* tarfile: members = [m for m in tf.getmembers() if m.isfile()]
\* zipfile: names = zf.namelist(), every entry
Members(a, archive_ext) ==
    IF archive_ext = ".tar.gz"
    THEN SelectSeq(ArchiveEntries(a), LAMBDA e : e.isfile)
    ELSE ArchiveEntries(a)

\* (mutant) the platform's own name is not preferred
Candidate_LiteralNamesOnly(a, t) ==
    LET ms == Members(a, t.archive_ext)
        c2 == First(ms, {"neo4j-mcp", "neo4j-mcp.exe"})
    IN  IF c2 = 0 THEN [found |-> FALSE, isfile |-> FALSE, payload |-> 0]
        ELSE [found |-> TRUE, isfile |-> ms[c2].isfile, payload |-> ms[c2].payload]

\* the entry _extract_archive selects: wanted first, then the two literal names
Candidate(a, t) ==
    LET ms == Members(a, t.archive_ext)
        c1 == First(ms, {extracted_binary_name(t)})
        c2 == IF c1 # 0 THEN c1 ELSE First(ms, {"neo4j-mcp", "neo4j-mcp.exe"})
    IN  IF c2 = 0 THEN [found |-> FALSE, isfile |-> FALSE, payload |-> 0]
        ELSE [found |-> TRUE, isfile |-> ms[c2].isfile, payload |-> ms[c2].payload]

(***************************************************************************)
(* Digests are strings of hex characters, modelled as sequences.           *)
(***************************************************************************)
HexDigit == << "0", "a", "1", "b" >>

LowerChar(c) ==
    CASE c = "A" -> "a"
      [] c = "B" -> "b"
      [] OTHER   -> c

UpperChar(c) ==
    CASE c = "a" -> "A"
      [] c = "b" -> "B"
      [] OTHER   -> c

Lower(s) == [i \in 1..Len(s) |-> LowerChar(s[i])]
Upper(s) == [i \in 1..Len(s) |-> UpperChar(s[i])]

\* _sha256_file of a file holding archive a: hexdigest(), lowercase, injective
Sha256(a) == [i \in 1..HexLen |-> HexDigit[((a \div (4 ^ (HexLen - i))) % 4) + 1]]

\* re.fullmatch(r"[0-9a-fA-F]{64}", s)
IsHexDigest(s) ==
    /\ Len(s) = HexLen
    /\ \A i \in 1..Len(s) : s[i] \in {"0", "1", "a", "b", "A", "B"}

(***************************************************************************)
(* The checksums manifest.  A text is a sequence of lines, a line is the   *)
(* sequence of its whitespace-separated words (a blank line has none).     *)
(* A word is a file name, a run of characters, or "sha256:" followed by a  *)
(* run of characters.                                                      *)
(***************************************************************************)
NameWord(n) == [k |-> "name", name |-> n, hex |-> << >>]
HexWord(h) == [k |-> "hex", name |-> "", hex |-> h]
ShaWord(h) == [k |-> "sha", name |-> "", hex |-> h]

NoDigest == [some |-> FALSE, val |-> << >>]
SomeDigest(h) == [some |-> TRUE, val |-> h]

\* Python truthiness of Optional[str]
Truthy(e) == e.some /\ e.val # << >>

\* lines = [ln.strip() for ln in text.splitlines() if ln.strip()]
NonBlank(text) == SelectSeq(text, LAMBDA ln : ln # << >>)

\* the characters of a word as written
WordChars(w) ==
    CASE w.k = "name" -> << w.name >>
      [] w.k = "sha"  -> << "sha256:" >> \o w.hex
      [] OTHER        -> w.hex

RECURSIVE JoinWords(_)
JoinWords(ws) ==
    IF ws = << >> THEN << >>
    ELSE << " " >> \o WordChars(Head(ws)) \o JoinWords(Tail(ws))

\* line.split("sha256:", 1)[1].strip() of a line that starts with "sha256:":
\* what follows the prefix, without the leading blank of "sha256: <h>"
AfterPrefix(line) ==
    LET rest == line[1].hex \o JoinWords(Tail(line))
    IN  IF line[1].hex = << >> /\ rest # << >> THEN Tail(rest) ELSE rest

RECURSIVE BlockFrom(_, _, _)
BlockFrom(lines, i, filename) ==
    IF i > Len(lines) - 1 THEN NoDigest
    ELSE IF lines[i] = << NameWord(filename) >> /\ lines[i + 1][1].k = "sha"
    THEN SomeDigest(Lower(AfterPrefix(lines[i + 1])))
    ELSE BlockFrom(lines, i + 1, filename)

RECURSIVE LegacyFrom(_, _, _)
LegacyFrom(lines, i, filename) ==
    IF i > Len(lines) THEN NoDigest
    ELSE LET parts == lines[i]
         IN  IF /\ Len(parts) >= 2
                /\ parts[Len(parts)] = NameWord(filename)
                /\ parts[1].k = "hex"
                /\ IsHexDigest(parts[1].hex)
             THEN SomeDigest(Lower(parts[1].hex))
             ELSE LegacyFrom(lines, i + 1, filename)

\* (mutant) the single-line format is tried before the block format
expected_sha_from_checksums_LegacyFirst(text, filename) ==
    LET lines == NonBlank(text)
        legacy == LegacyFrom(lines, 1, filename)
    IN  IF legacy.some THEN legacy ELSE BlockFrom(lines, 1, filename)

\* _expected_sha_from_checksums(checksums_text, filename)
expected_sha_from_checksums(text, filename) ==
    LET lines == NonBlank(text)
        block == BlockFrom(lines, 1, filename)
    IN  IF block.some THEN block ELSE LegacyFrom(lines, 1, filename)

(***************************************************************************)
(* Transport outcomes and the functions that map them.                     *)
(***************************************************************************)
\* what one HTTP request can end in
HttpOk(body) == [kind |-> "ok", code |-> 200, body |-> body]
\* (nobody: the unused body of a failed request, of the type of the bodies beside it)
HttpError(code, nobody) == [kind |-> "http", code |-> code, body |-> nobody]
UrlError(nobody) == [kind |-> "url", code |-> 0, body |-> nobody]
\* a timeout while the body is read: socket.timeout, not a URLError
ReadTimeout(nobody) == [kind |-> "timeout", code |-> 0, body |-> nobody]

\* the outcome of a request, by name
StatusOf(resp) ==
    CASE resp.kind = "url" -> "URLError"
      [] resp.kind = "timeout" -> "TimeoutError"
      [] resp.code = 200   -> "200"
      [] resp.code = 404   -> "404"
      [] resp.code = 403   -> "403"
      [] OTHER             -> "500"

NoText == [some |-> FALSE, text |-> << >>]
SomeText(t) == [some |-> TRUE, text |-> t]

\* bytes.decode("utf-8", errors="replace"): a byte that is not UTF-8 ("\xff")
\* becomes U+FFFD, every other character is kept
DecodeChar(c) == IF c = "\\xff" THEN "U+FFFD" ELSE c
DecodeWord(w) == [w EXCEPT !.hex = [i \in 1..Len(w.hex) |-> DecodeChar(w.hex[i])]]
DecodeLine(ln) == [i \in 1..Len(ln) |-> DecodeWord(ln[i])]
Decode(body) == [i \in 1..Len(body) |-> DecodeLine(body[i])]

\* (mutant) 404 and 403 escape like every other HTTP status error
download_checksums_text_Strict(resp) ==
    IF resp.kind = "ok" THEN [raised |-> "", value |-> SomeText(Decode(resp.body))]
    ELSE IF resp.kind = "http" THEN [raised |-> "HTTPError", value |-> NoText]
    ELSE IF resp.kind = "url" THEN [raised |-> "", value |-> NoText]
    ELSE [raised |-> "TimeoutError", value |-> NoText]

\* (mutant) the except clause for URLError is missing
download_checksums_text_UrlRaises(resp) ==
    IF resp.kind = "ok" THEN [raised |-> "", value |-> SomeText(Decode(resp.body))]
    ELSE IF resp.kind = "http"
    THEN IF resp.code \in {404, 403}
         THEN [raised |-> "", value |-> NoText]
         ELSE [raised |-> "HTTPError", value |-> NoText]
    ELSE IF resp.kind = "url" THEN [raised |-> "URLError", value |-> NoText]
    ELSE [raised |-> "TimeoutError", value |-> NoText]

\* (mutant) a timeout while the manifest is read counts as no manifest
download_checksums_text_TimeoutSwallowed(resp) ==
    IF resp.kind = "ok" THEN [raised |-> "", value |-> SomeText(Decode(resp.body))]
    ELSE IF resp.kind = "http"
    THEN IF resp.code \in {404, 403}
         THEN [raised |-> "", value |-> NoText]
         ELSE [raised |-> "HTTPError", value |-> NoText]
    ELSE [raised |-> "", value |-> NoText]

\* _download_checksums_text: [raised |-> "" or the exception that escapes,
\*                            value |-> Optional[str]]
download_checksums_text(resp) ==
    IF resp.kind = "ok" THEN [raised |-> "", value |-> SomeText(Decode(resp.body))]
    ELSE IF resp.kind = "http"
    THEN IF resp.code \in {404, 403}
         THEN [raised |-> "", value |-> NoText]
         ELSE [raised |-> "HTTPError", value |-> NoText]
    ELSE IF resp.kind = "url" THEN [raised |-> "", value |-> NoText]
    ELSE [raised |-> "TimeoutError", value |-> NoText]

\* `if checksums:` -- None and the empty text are falsy
TextTruthy(c) == c.some /\ c.text # << >>

(***************************************************************************)
(* The release host.                                                       *)
(***************************************************************************)
\* the body of a latest-release response: valid JSON or not, with tag_name or not
JsonBody(valid, has_tag, tag) == [valid |-> valid, has_tag |-> has_tag, tag |-> tag]

LatestResponses ==
    { HttpOk(JsonBody(TRUE, TRUE, v)) : v \in Versions }
    \cup { HttpOk(JsonBody(TRUE, TRUE, "")), HttpOk(JsonBody(TRUE, FALSE, "")),
           HttpOk(JsonBody(FALSE, FALSE, "")),
           HttpError(403, JsonBody(FALSE, FALSE, "")),
           UrlError(JsonBody(FALSE, FALSE, "")) }

\* (mutant) a failed request falls back to a built-in tag
latest_version_Swallow(resp) ==
    IF resp.kind \in {"http", "url"} THEN [err |-> "", value |-> "v1"]
    ELSE IF ~resp.body.valid THEN [err |-> "JSONDecodeError", value |-> ""]
    ELSE IF ~resp.body.has_tag \/ resp.body.tag = ""
    THEN [err |-> "NoTagName", value |-> ""]
    ELSE [err |-> "", value |-> resp.body.tag]

\* (mutant) a body that is not JSON is reported as a missing tag
latest_version_WrapsJson(resp) ==
    IF resp.kind = "http" THEN [err |-> "HTTPError", value |-> ""]
    ELSE IF resp.kind = "url" THEN [err |-> "URLError", value |-> ""]
    ELSE IF ~resp.body.valid \/ ~resp.body.has_tag \/ resp.body.tag = ""
    THEN [err |-> "NoTagName", value |-> ""]
    ELSE [err |-> "", value |-> resp.body.tag]

\* latest_version(repo): [err |-> "" or the exception, value |-> the tag]
latest_version(resp) ==
    IF resp.kind = "http" THEN [err |-> "HTTPError", value |-> ""]
    ELSE IF resp.kind = "url" THEN [err |-> "URLError", value |-> ""]
    ELSE IF ~resp.body.valid THEN [err |-> "JSONDecodeError", value |-> ""]
    ELSE IF ~resp.body.has_tag \/ resp.body.tag = ""
    THEN [err |-> "NoTagName", value |-> ""]
    ELSE [err |-> "", value |-> resp.body.tag]

\* what urlopen for the archive can end in
DownloadResponses == { HttpOk(0), HttpError(404, 0), UrlError(0) }

\* manifest texts the release host may publish, for an asset named f
Block(f, h) == << << NameWord(f) >>, << ShaWord(h) >> >>
Legacy(f, h) == << << HexWord(h), NameWord(f) >> >>

ManifestDigests ==
    { Sha256(a) : a \in Archives } \cup { Upper(Sha256(3)), << >> }

ManifestTexts(f) ==
    { << >>, << << >>, << NameWord(f) >> >>, << << HexWord(<< "\\xff" >>) >> >> }
    \cup { Block(f, h) : h \in ManifestDigests }
    \cup { << << NameWord(f) >>, << >>, << ShaWord(h) >> >> : h \in ManifestDigests }
    \cup { Block("neo4j-mcp_Other.tar.gz", h) : h \in ManifestDigests }
    \cup { Legacy(f, h) : h \in ManifestDigests }

ManifestResponses(f) ==
    { HttpOk(t) : t \in ManifestTexts(f) }
    \cup { HttpError(404, << >>), HttpError(403, << >>), HttpError(500, << >>),
           UrlError(<< >>), ReadTimeout(<< >>) }

(***************************************************************************)
(* State.                                                                  *)
(***************************************************************************)
VARIABLES
    host,       \* (platform.system(), platform.machine()) of the machine
    fs,         \* the file at every path
    installDirExists,   \* install_dir is a directory
    dataRootExists,     \* data_root() is a directory
    pc,         \* position of the run in install_binary
    call,       \* arguments and environment of the run
    target,     \* local target
    version,    \* local version, once resolved
    chk,        \* locals of the verification: checksums, expected, actual
    err,        \* the exception the run ended in
    ret,        \* the value the run returned
    obs,        \* calls the run has made, by kind
    pre,        \* the files when the run, or the uninstall, started
    prev,       \* how the preceding run ended
    runs,       \* runs started
    at,         \* where the run was when the process died
    fn,         \* a helper function applied on its own: name, argument, result
    procs,      \* the runs of two processes at the same time, see SpecRace
    cli         \* the last command line given to main(), see SpecCli

vars == << host, fs, installDirExists, dataRootExists, pc, call, target, version, chk, err, ret,
           obs, pre, prev, runs, at, fn, procs, cli >>

NoCall == [version |-> "", env_version |-> "", verify |-> TRUE, env_skip |-> "",
           force_download |-> FALSE]
NoChk == [fetched |-> "no", expected |-> NoDigest, actual |-> NoDigest]
NoRet == [path |-> << >>, version |-> "", extracted |-> << >>]
\* counters of the calls, and how the latest-release query and the archive
\* download ended ("" is not made; the manifest fetch is in chk.fetched)
\* got: the archive the download delivered (0: none)
\* chunks: the non-empty chunks the download loop has read, while it runs
NoObs == [latest |-> 0, download |-> 0, manifest |-> 0, sha |-> 0, extract |-> 0,
          latest_status |-> "", download_status |-> "", got |-> 0, chunks |-> 0]
\* no preceding run, or one that did not succeed.  err, tried, fs: the exception
\* the preceding run ended in, the version it had resolved, the files when it
\* started
\* compared: the preceding run compared the digest of its download
NoPrev == [ok |-> FALSE, version |-> "", ret |-> NoRet, err |-> "", tried |-> "",
           fs |-> << >>, compared |-> FALSE]
NoFn == [name |-> "", arg |-> << >>, res |-> << >>]

\* the processes that run install_binary at the same time
Procs == {1, 2}
\* a process: its position, its version and force_download arguments, the
\* archive it downloaded, the bytes it is writing, the path at which the file it
\* has open for writing is found (none: << >>), its exception
IdleProc == [pc |-> "idle", version |-> "", force |-> FALSE, a |-> 0, payload |-> 0,
             fd |-> << >>, err |-> ""]
\* no command line yet.  n: the command lines given so far; cmd, opts: the last
\* one; path: the path it printed or removed; out: the messages it printed;
\* was: what an uninstall undid (the version that the run just before it had
\* installed, "" if it followed no successful run, and whether it emptied the
\* cache), kept through the install command that follows the uninstall
NoWas == [version |-> "", clean |-> FALSE]
NoCli == [n |-> 0, cmd |-> "", opts |-> {}, path |-> << >>, out |-> << >>,
          was |-> NoWas]

\* version arguments and NEO4J_MCP_VERSION values; "" is None, unset or empty
ArgVersions == {"", "v1"}
EnvVersions == {"", "v2"}
\* NEO4J_MCP_SKIP_VERIFY; "" is unset or empty.  `verify and not os.environ.get(..)`
\* reads the variable only when verify is true.
EnvSkips(verify) == IF verify THEN {"", "1"} ELSE {""}

Running == pc \notin {"idle", "done", "error", "crashed"}

Bump(k) == [obs EXCEPT ![k] = @ + 1]

Init ==
    /\ host \in Hosts
    /\ fs = [p \in PathsOf(HostTarget(host)) |-> Absent]
    /\ installDirExists = FALSE
    /\ dataRootExists = FALSE
    /\ pc = "idle"
    /\ call = NoCall
    /\ target = NoTarget
    /\ version = ""
    /\ chk = NoChk
    /\ err = ""
    /\ ret = NoRet
    /\ obs = NoObs
    /\ pre = [fs |-> fs, dir |-> FALSE, root |-> FALSE]
    /\ prev = NoPrev
    /\ runs = 0
    /\ at = ""
    /\ fn = NoFn
    /\ procs = [p \in Procs |-> IdleProc]
    /\ cli = NoCli

(***************************************************************************)
(* install_binary, step by step.                                           *)
(***************************************************************************)
\* install_binary is entered with the arguments and the environment c
Begin(c) ==
    /\ call' = c
    /\ pc' = "detect"
    /\ runs' = runs + 1
    /\ prev' = IF pc = "done"
                THEN [NoPrev EXCEPT !.ok = TRUE, !.version = version, !.ret = ret,
                                    !.compared = obs.sha = 1]
                ELSE IF pc = "error" /\ err = "ChecksumMismatch"
                THEN [NoPrev EXCEPT !.err = err, !.tried = version, !.fs = pre.fs]
                ELSE NoPrev
    /\ pre' = [fs |-> fs, dir |-> installDirExists, root |-> dataRootExists]
    /\ target' = NoTarget
    /\ version' = ""
    /\ chk' = NoChk
    /\ err' = ""
    /\ ret' = NoRet
    /\ obs' = NoObs
    /\ at' = ""
    /\ UNCHANGED << host, dataRootExists, fs, installDirExists, fn, procs >>

\* a call of install_binary
Start ==
    /\ ~Running
    /\ runs < MaxRuns
    /\ \E v \in ArgVersions, ev \in EnvVersions, vf \in BOOLEAN, fd \in BOOLEAN :
       \E sk \in EnvSkips(vf) :
          Begin([version |-> v, env_version |-> ev, verify |-> vf, env_skip |-> sk,
                 force_download |-> fd])
    /\ cli' = cli

\* target = detect_target()
DetectTarget ==
    /\ pc = "detect"
    /\ LET r == detect_target(host[1], host[2])
       IN  IF r.err # ""
           THEN pc' = "error" /\ err' = r.err /\ target' = target
           ELSE pc' = "resolve" /\ err' = err /\ target' = r.target
    /\ UNCHANGED << host, dataRootExists, fs, installDirExists, call, version, chk,
                    ret, obs, pre, prev, runs, at, fn, procs, cli >>

\* (mutant) the argument wins over the environment
GivenVersion_ArgFirst(c) == IF c.version # "" THEN c.version ELSE c.env_version

\* env_version = os.environ.get("NEO4J_MCP_VERSION"); if env_version: version = it
GivenVersion(c) == IF c.env_version # "" THEN c.env_version ELSE c.version

\* the version is resolved; if not version: version = latest_version(repo=repo)
ResolveVersion ==
    /\ pc = "resolve"
    /\ LET given == GivenVersion(call)
       IN  IF given # ""
           THEN version' = given /\ pc' = "mkdir" /\ err' = err /\ obs' = obs
           ELSE \E resp \in LatestResponses :
                   LET r == latest_version(resp)
                   IN  /\ obs' = [obs EXCEPT !.latest = @ + 1,
                                                 !.latest_status = StatusOf(resp)]
                       /\ IF r.err # ""
                          THEN pc' = "error" /\ err' = r.err /\ version' = version
                          ELSE pc' = "mkdir" /\ err' = err /\ version' = r.value
    /\ UNCHANGED << host, dataRootExists, fs, installDirExists, call, target, chk,
                    ret, pre, prev, runs, at, fn, procs, cli >>

\* (mutant) the cache is never consulted
NeedsDownload_Always == TRUE

\* (mutant) the cache check looks at the temp sibling of the extracted binary
NeedsDownload_WrongPath ==
    ~Exists(fs[TmpOf(extracted_path(version, target))]) \/ call.force_download

\* (mutant) a cached binary is reused even under force
NeedsDownload_IgnoresForce == ~Exists(fs[extracted_path(version, target)])

\* if not extracted.exists() or force_download
NeedsDownload ==
    ~Exists(fs[extracted_path(version, target)]) \/ call.force_download

\* (mutant) the install directory is not created at this point
MkInstallDir_Later == installDirExists

\* install_dir.mkdir(parents=True, exist_ok=True): the directory exists afterwards
MkInstallDir == TRUE

\* install_dir.mkdir(parents=True, exist_ok=True), then the cache check
CheckCache ==
    /\ pc = "mkdir"
    /\ installDirExists' = MkInstallDir
    /\ pc' = IF NeedsDownload THEN "unlink_tmp_archive" ELSE "copy"
    /\ UNCHANGED << host, dataRootExists, fs, call, target, version, chk, err, ret,
                    obs, pre, prev, runs, at, fn, procs, cli >>

\* (mutant) the extractor writes the binary at its final name
TmpExtracted_InPlace == extracted_path(version, target)

Archive == archive_path(version, target)
TmpArchive == TmpOf(archive_path(version, target))
\* (mutant) the extracted binary is cached at one place for all versions
Extracted_VersionBlind == extracted_path("v1", target)

Extracted == extracted_path(version, target)
TmpExtracted == TmpOf(extracted_path(version, target))

\* (mutant) a temp archive left by an earlier run is not removed
UnlinkTmpArchive_Skip ==
    /\ pc = "unlink_tmp_archive"
    /\ fs' = fs
    /\ pc' = "download"
    /\ UNCHANGED << host, dataRootExists, installDirExists, call, target, version, chk,
                    err, ret, obs, pre, prev, runs, at, fn, procs, cli >>

\* if tmp_archive.exists(): tmp_archive.unlink(missing_ok=True)
UnlinkTmpArchive ==
    /\ pc = "unlink_tmp_archive"
    /\ fs' = [fs EXCEPT ![TmpArchive] = Absent]
    /\ pc' = "download"
    /\ UNCHANGED << host, dataRootExists, installDirExists, call, target, version,
                    chk, err, ret, obs, pre, prev, runs, at, fn, procs, cli >>

\* _http_download: dest.parent.mkdir(parents=True, exist_ok=True), urlopen(req),
\* then open(dest, "wb")
DownloadOpen ==
    /\ pc = "download"
    /\ dataRootExists' = TRUE
    /\ \E resp \in DownloadResponses :
          /\ obs' = [obs EXCEPT !.download = @ + 1, !.download_status = StatusOf(resp)]
          /\ IF resp.kind = "ok"
             THEN /\ fs' = [fs EXCEPT ![TmpArchive] = Partial]
                  /\ pc' = "streaming"
                  /\ err' = err
             ELSE /\ fs' = fs
                  /\ pc' = "error"
                  /\ err' = IF resp.kind = "http" THEN "HTTPError" ELSE "URLError"
    /\ UNCHANGED << host, installDirExists, call, target, version, chk, ret, pre, prev,
                    runs, at, fn, procs, cli >>

\* the non-empty chunks of 1 MiB a response body holds at most
MaxChunks == 2
\* what resp.read(1024 * 1024) gives: a non-empty chunk (More), the empty chunk
\* that ends the body of archive a (a \in Archives), or an exception (0)
More == 0 - 1
Reads == Archives \cup {0, More}

\* (mutant) the loop has no `if not chunk: break`: it goes on reading, and
\* writing nothing, after the body has ended
DownloadStream_NoBreak ==
    /\ pc = "streaming"
    /\ \E a \in Reads :
          IF a = More
          THEN /\ obs.chunks < MaxChunks
               /\ fs' = fs
               /\ pc' = pc
               /\ err' = err
               /\ obs' = [obs EXCEPT !.chunks = @ + 1]
          ELSE IF a # 0
          THEN /\ fs' = [fs EXCEPT ![TmpArchive] = Full(a, FALSE)]
               /\ pc' = pc
               /\ err' = err
               /\ obs' = [obs EXCEPT !.got = a, !.chunks = (@ + 1) % (MaxChunks + 1)]
          ELSE /\ fs' = fs
               /\ pc' = "error"
               /\ err' = "ReadError"
               /\ obs' = [obs EXCEPT !.download_status = "ReadError", !.chunks = 0]
    /\ UNCHANGED << host, dataRootExists, installDirExists, call, target, version,
                    chk, ret, pre, prev, runs, at, fn, procs, cli >>

\* _http_download: one turn of the chunk loop.  A non-empty chunk is written
\* and the loop goes on; the empty chunk ends it (the file then holds the
\* archive a the host served); an exception of read or write ends the run
DownloadStream ==
    /\ pc = "streaming"
    /\ \E a \in Reads :
          IF a = More
          THEN /\ obs.chunks < MaxChunks
               /\ fs' = fs
               /\ pc' = pc
               /\ err' = err
               /\ obs' = [obs EXCEPT !.chunks = @ + 1]
          ELSE IF a # 0
          THEN /\ fs' = [fs EXCEPT ![TmpArchive] = Full(a, FALSE)]
               /\ pc' = "verify"
               /\ err' = err
               /\ obs' = [obs EXCEPT !.got = a, !.chunks = 0]
          ELSE /\ fs' = fs
               /\ pc' = "error"
               /\ err' = "ReadError"
               /\ obs' = [obs EXCEPT !.download_status = "ReadError", !.chunks = 0]
    /\ UNCHANGED << host, dataRootExists, installDirExists, call, target, version,
                    chk, ret, pre, prev, runs, at, fn, procs, cli >>

\* (mutant) the kill-switch is not read
VerifyEnabled_IgnoresEnv == call.verify

\* if verify and not os.environ.get("NEO4J_MCP_SKIP_VERIFY")
VerifyEnabled == call.verify /\ call.env_skip = ""

\* (mutant) only the lengths of the digests are compared
Mismatch_LengthOnly(actual, expected) == Len(actual) # Len(expected)

\* (mutant) the digests are compared as they are written
Mismatch_CaseSensitive(actual, expected) == actual # expected

\* actual.lower() != expected.lower()
Mismatch(actual, expected) == Lower(actual) # Lower(expected)

\* (mutant) the rejected download is left behind
AfterMismatch_KeepTmp == fs

\* (mutant) the rejected download is moved to the canonical archive path
AfterMismatch_Promote ==
    [fs EXCEPT ![Archive] = fs[TmpArchive], ![TmpArchive] = Absent]

\* (mutant) the installed binary is removed with the rejected download
AfterMismatch_RemoveFinal ==
    [fs EXCEPT ![TmpArchive] = Absent, ![FinalPath(target)] = Absent]

\* tmp_archive.unlink(missing_ok=True), before the raise
AfterMismatch == [fs EXCEPT ![TmpArchive] = Absent]

\* (mutant) the archive at its canonical path is hashed
HashedFile_Canonical == Archive

\* actual = _sha256_file(tmp_archive): the file that is hashed
HashedFile == TmpArchive

\* the verification block: fetch the manifest, find the digest, hash, compare
Verify ==
    /\ pc = "verify"
    /\ IF ~VerifyEnabled
       THEN /\ pc' = "unlink_archive"
            /\ UNCHANGED << fs, chk, err, obs >>
       ELSE \E resp \in ManifestResponses(asset_name(target)) :
            LET checksums == download_checksums_text(resp)
                expected == expected_sha_from_checksums(checksums.value.text,
                                                        asset_name(target))
                actual == Sha256(fs[HashedFile].data)
                fetched == StatusOf(resp)
            IN  IF checksums.raised # ""
                THEN /\ pc' = "error"
                     /\ err' = checksums.raised
                     /\ chk' = [NoChk EXCEPT !.fetched = fetched]
                     /\ obs' = Bump("manifest")
                     /\ fs' = fs
                ELSE IF ~TextTruthy(checksums.value)
                THEN /\ pc' = "unlink_archive"
                     /\ err' = err
                     /\ chk' = [NoChk EXCEPT !.fetched = fetched]
                     /\ obs' = Bump("manifest")
                     /\ fs' = fs
                ELSE IF ~Truthy(expected)
                THEN /\ pc' = "unlink_archive"
                     /\ err' = err
                     /\ chk' = [NoChk EXCEPT !.fetched = fetched, !.expected = expected]
                     /\ obs' = Bump("manifest")
                     /\ fs' = fs
                ELSE IF Mismatch(actual, expected.val)
                THEN /\ pc' = "error"
                     /\ err' = "ChecksumMismatch"
                     /\ chk' = [fetched |-> fetched, expected |-> expected,
                                actual |-> SomeDigest(actual)]
                     /\ obs' = [obs EXCEPT !.manifest = @ + 1, !.sha = @ + 1]
                     /\ fs' = AfterMismatch
                ELSE /\ pc' = "unlink_archive"
                     /\ err' = err
                     /\ chk' = [fetched |-> fetched, expected |-> expected,
                                actual |-> SomeDigest(actual)]
                     /\ obs' = [obs EXCEPT !.manifest = @ + 1, !.sha = @ + 1]
                     /\ fs' = fs
    /\ UNCHANGED << host, dataRootExists, installDirExists, call, target, version,
                    ret, pre, prev, runs, at, fn, procs, cli >>

\* archive.parent.mkdir(...); if archive.exists(): archive.unlink()
UnlinkArchive ==
    /\ pc = "unlink_archive"
    /\ fs' = [fs EXCEPT ![Archive] = Absent]
    /\ pc' = "rename_archive"
    /\ UNCHANGED << host, dataRootExists, installDirExists, call, target, version,
                    chk, err, ret, obs, pre, prev, runs, at, fn, procs, cli >>

\* tmp_archive.replace(archive)
RenameArchive ==
    /\ pc = "rename_archive"
    /\ fs' = [fs EXCEPT ![Archive] = fs[TmpArchive], ![TmpArchive] = Absent]
    /\ pc' = "extract_open"
    /\ UNCHANGED << host, dataRootExists, installDirExists, call, target, version,
                    chk, err, ret, obs, pre, prev, runs, at, fn, procs, cli >>

\* _extract_archive: open the archive and choose the entry
ExtractOpen ==
    /\ pc = "extract_open"
    /\ obs' = Bump("extract")
    /\ IF target.archive_ext \notin {".tar.gz", ".zip"}
       THEN pc' = "error" /\ err' = "UnsupportedArchive"
       ELSE IF ~Candidate(fs[Archive].data, target).found
       THEN pc' = "error" /\ err' = "BinaryNotFound"
       ELSE pc' = "extract_write" /\ err' = err
    /\ UNCHANGED << host, dataRootExists, fs, installDirExists, call, target, version,
                    chk, ret, pre, prev, runs, at, fn, procs, cli >>

\* _extract_archive: open(tmp, "wb")
ExtractWriteBegin ==
    /\ pc = "extract_write"
    /\ fs' = [fs EXCEPT ![TmpExtracted] = Partial]
    /\ pc' = "extract_writing"
    /\ UNCHANGED << host, dataRootExists, installDirExists, call, target, version,
                    chk, err, ret, obs, pre, prev, runs, at, fn, procs, cli >>

\* _extract_archive: f.write(...) and close
ExtractWriteEnd ==
    /\ pc = "extract_writing"
    /\ fs' = [fs EXCEPT ![TmpExtracted] =
                           Full(Candidate(fs[Archive].data, target).payload, FALSE)]
    /\ pc' = "extract_unlink"
    /\ UNCHANGED << host, dataRootExists, installDirExists, call, target, version,
                    chk, err, ret, obs, pre, prev, runs, at, fn, procs, cli >>

\* (mutant) a binary already cached is kept, and the new one dropped
ExtractUnlink_KeepCached ==
    /\ pc = "extract_unlink"
    /\ IF Exists(fs[Extracted])
       THEN fs' = [fs EXCEPT ![TmpExtracted] = Absent] /\ pc' = "extract_chmod"
       ELSE fs' = fs /\ pc' = "extract_rename"
    /\ UNCHANGED << host, dataRootExists, installDirExists, call, target, version,
                    chk, err, ret, obs, pre, prev, runs, at, fn, procs, cli >>

\* _extract_archive: if out_bin.exists(): out_bin.unlink()
ExtractUnlink ==
    /\ pc = "extract_unlink"
    /\ fs' = [fs EXCEPT ![Extracted] = Absent]
    /\ pc' = "extract_rename"
    /\ UNCHANGED << host, dataRootExists, installDirExists, call, target, version,
                    chk, err, ret, obs, pre, prev, runs, at, fn, procs, cli >>

\* _extract_archive: tmp.replace(out_bin)
ExtractRename ==
    /\ pc = "extract_rename"
    /\ fs' = [fs EXCEPT ![Extracted] = fs[TmpExtracted], ![TmpExtracted] = Absent]
    /\ pc' = "extract_chmod"
    /\ UNCHANGED << host, dataRootExists, installDirExists, call, target, version,
                    chk, err, ret, obs, pre, prev, runs, at, fn, procs, cli >>

\* the permission bits of st_mode
ModeBits == {"S_ISUID", "S_ISGID", "S_ISVTX", "S_IRUSR", "S_IWUSR", "S_IXUSR",
             "S_IRGRP", "S_IWGRP", "S_IXGRP", "S_IROTH", "S_IWOTH", "S_IXOTH"}
\* stat.S_IXUSR | stat.S_IXGRP | stat.S_IXOTH
ExecBits == {"S_IXUSR", "S_IXGRP", "S_IXOTH"}

\* (mutant) the mode is set to rwxr-xr-x
chmod_executable_Replace(mode, nt) ==
    IF nt THEN mode
    ELSE {"S_IRUSR", "S_IWUSR", "S_IXUSR", "S_IRGRP", "S_IXGRP", "S_IROTH", "S_IXOTH"}

\* _make_executable on a file of this mode: the mode afterwards
chmod_executable(mode, nt) == IF nt THEN mode ELSE mode \cup ExecBits

\* (mutant) the mode is left as it is
make_executable_Noop(f) == f

\* _make_executable(path): nothing on Windows, else the three execute bits
make_executable(f) == IF IsNt(host[1]) THEN f ELSE [f EXCEPT !.x = TRUE]

\* (mutant) every extension that is not .tar.gz is opened as a zip
extract_archive_ZipByDefault(a, t, out_bin, tmp) ==
    IF ~Candidate(a, t).found
    THEN [raised |-> "BinaryNotFound", opened |-> TRUE, out_bin |-> out_bin, tmp |-> tmp]
    ELSE [raised |-> "", opened |-> TRUE,
          out_bin |-> make_executable(Full(Candidate(a, t).payload, FALSE)),
          tmp |-> Absent]

\* _extract_archive(archive, out_bin, target) as a whole, on an archive holding
\* a and the files out_bin and tmp: the exception raised, whether the archive
\* was opened, and the two files afterwards
extract_archive(a, t, out_bin, tmp) ==
    IF t.archive_ext \notin {".tar.gz", ".zip"}
    THEN [raised |-> "UnsupportedArchive", opened |-> FALSE,
          out_bin |-> out_bin, tmp |-> tmp]
    ELSE IF ~Candidate(a, t).found
    THEN [raised |-> "BinaryNotFound", opened |-> TRUE, out_bin |-> out_bin, tmp |-> tmp]
    ELSE [raised |-> "", opened |-> TRUE,
          out_bin |-> make_executable(Full(Candidate(a, t).payload, FALSE)),
          tmp |-> Absent]

\* _extract_archive: _make_executable(out_bin)
ExtractChmod ==
    /\ pc = "extract_chmod"
    /\ fs' = [fs EXCEPT ![Extracted] = make_executable(@)]
    /\ pc' = "copy"
    /\ UNCHANGED << host, dataRootExists, installDirExists, call, target, version,
                    chk, err, ret, obs, pre, prev, runs, at, fn, procs, cli >>

\* shutil.copy2(extracted, tmp_final): the destination is opened and written
CopyBegin ==
    /\ pc = "copy"
    /\ fs' = [fs EXCEPT ![TmpFinalPath(target)] = Partial]
    /\ pc' = "copying"
    /\ UNCHANGED << host, dataRootExists, installDirExists, call, target, version,
                    chk, err, ret, obs, pre, prev, runs, at, fn, procs, cli >>

\* shutil.copy2: the content is complete, then the mode is copied
CopyEnd ==
    /\ pc = "copying"
    /\ fs' = [fs EXCEPT ![TmpFinalPath(target)] = Full(fs[Extracted].data, fs[Extracted].x)]
    /\ pc' = "chmod_tmp_final"
    /\ UNCHANGED << host, dataRootExists, installDirExists, call, target, version,
                    chk, err, ret, obs, pre, prev, runs, at, fn, procs, cli >>

\* _make_executable(tmp_final)
ChmodTmpFinal ==
    /\ pc = "chmod_tmp_final"
    /\ fs' = [fs EXCEPT ![TmpFinalPath(target)] = make_executable(@)]
    /\ pc' = "unlink_final"
    /\ UNCHANGED << host, dataRootExists, installDirExists, call, target, version,
                    chk, err, ret, obs, pre, prev, runs, at, fn, procs, cli >>

\* if final_path.exists(): final_path.unlink()
UnlinkFinal ==
    /\ pc = "unlink_final"
    /\ fs' = [fs EXCEPT ![FinalPath(target)] = Absent]
    /\ pc' = "rename_final"
    /\ UNCHANGED << host, dataRootExists, installDirExists, call, target, version,
                    chk, err, ret, obs, pre, prev, runs, at, fn, procs, cli >>

\* tmp_final.replace(final_path)
RenameFinal ==
    /\ pc = "rename_final"
    /\ fs' = [fs EXCEPT ![FinalPath(target)] = fs[TmpFinalPath(target)],
                        ![TmpFinalPath(target)] = Absent]
    /\ pc' = "return"
    /\ UNCHANGED << host, dataRootExists, installDirExists, call, target, version,
                    chk, err, ret, obs, pre, prev, runs, at, fn, procs, cli >>

\* return final_path, version, extracted
Return ==
    /\ pc = "return"
    /\ ret' = [path |-> FinalPath(target), version |-> version, extracted |-> Extracted]
    /\ pc' = "done"
    /\ UNCHANGED << host, dataRootExists, fs, installDirExists, call, target, version,
                    chk, err, obs, pre, prev, runs, at, fn, procs, cli >>

\* the process dies between two steps (kill, power loss): the files stay, the
\* arguments and locals of the call are gone
Crash ==
    /\ Running
    /\ pc' = "crashed"
    /\ at' = pc
    /\ call' = NoCall
    /\ chk' = NoChk
    /\ obs' = NoObs
    /\ UNCHANGED << host, dataRootExists, fs, installDirExists, target, version, err,
                    ret, pre, prev, runs, fn, procs, cli >>

Next ==
    \/ Start
    \/ DetectTarget
    \/ ResolveVersion
    \/ CheckCache
    \/ UnlinkTmpArchive
    \/ DownloadOpen
    \/ DownloadStream
    \/ Verify
    \/ UnlinkArchive
    \/ RenameArchive
    \/ ExtractOpen
    \/ ExtractWriteBegin
    \/ ExtractWriteEnd
    \/ ExtractUnlink
    \/ ExtractRename
    \/ ExtractChmod
    \/ CopyBegin
    \/ CopyEnd
    \/ ChmodTmpFinal
    \/ UnlinkFinal
    \/ RenameFinal
    \/ Return
    \/ Crash

Spec == Init /\ [][Next]_vars

(***************************************************************************)
(* The pipeline when the process is left to run: every call it makes       *)
(* returns or raises, so a run that can take a step takes one.             *)
(***************************************************************************)
Step ==
    \/ DetectTarget
    \/ ResolveVersion
    \/ CheckCache
    \/ UnlinkTmpArchive
    \/ DownloadOpen
    \/ DownloadStream
    \/ Verify
    \/ UnlinkArchive
    \/ RenameArchive
    \/ ExtractOpen
    \/ ExtractWriteBegin
    \/ ExtractWriteEnd
    \/ ExtractUnlink
    \/ ExtractRename
    \/ ExtractChmod
    \/ CopyBegin
    \/ CopyEnd
    \/ ChmodTmpFinal
    \/ UnlinkFinal
    \/ RenameFinal
    \/ Return

NextLive ==
    \/ Start
    \/ Step

SpecLive == Init /\ [][NextLive]_vars /\ WF_vars(Step)

(***************************************************************************)
(* The helper functions applied on their own, to every input in bounds.    *)
(***************************************************************************)
main == << host, fs, installDirExists, dataRootExists, pc, call, target, version, chk, err, ret,
           obs, pre, prev, runs, at >>

\* the asset the manifests below are searched for
PureAsset == asset_name(Target("Linux", "x86_64", ".tar.gz"))

\* what a manifest may hold after "sha256:": a digest, one in upper case, nothing
AnyDigests == { Sha256(1), Upper(Sha256(3)), << >> }
\* first words of a single-line entry: a digest, one in upper case, one a
\* character too long
AnyHashes == { Sha256(1), Upper(Sha256(2)), Sha256(1) \o << "0" >> }

\* the lines of a manifest: blank, a name, a word, "sha256:<h>", "sha256: <h>",
\* "<h> <name>", "<h> <word> <name>"
AnyLines ==
    { << >>, << NameWord(PureAsset) >>, << NameWord("other") >>,
      << HexWord(<< "\\xff" >>) >>,
      << ShaWord(<< >>), HexWord(Sha256(2)) >>,
      << HexWord(Sha256(3)), NameWord("other"), NameWord(PureAsset) >> }
    \cup { << ShaWord(h) >> : h \in AnyDigests }
    \cup { << HexWord(h), NameWord(PureAsset) >> : h \in AnyHashes }

\* every text of at most MaxLines lines
AnyTexts == UNION { [1..n -> AnyLines] : n \in 0..MaxLines }

\* every outcome of the request for the manifest
AnyManifestResponses ==
    { HttpOk(t) : t \in AnyTexts }
    \cup { HttpError(c, << >>) : c \in {400, 401, 403, 404, 429, 500, 502, 503} }
    \cup { UrlError(<< >>), ReadTimeout(<< >>) }

\* _download_checksums_text(version, base_url) on the outcome resp of its request
CallDownloadChecksums ==
    /\ fn = NoFn
    /\ \E resp \in AnyManifestResponses :
          fn' = [name |-> "download_checksums_text", arg |-> resp,
                 res |-> download_checksums_text(resp)]
    /\ UNCHANGED << main, procs, cli >>

\* _expected_sha_from_checksums(checksums_text, filename)
CallExpectedSha ==
    /\ fn = NoFn
    /\ \E text \in AnyTexts :
          fn' = [name |-> "expected_sha_from_checksums",
                 arg |-> [text |-> text, filename |-> PureAsset],
                 res |-> expected_sha_from_checksums(text, PureAsset)]
    /\ UNCHANGED << main, procs, cli >>

\* values of platform.system() and platform.machine()
AnySystems == {"Darwin", "Linux", "Windows", "FreeBSD", "Java", "linux", ""}
AnyMachines ==
    {"arm64", "aarch64", "x86_64", "amd64", "i386", "i686", "x86",
     "ARM64", "Aarch64", "X86_64", "AMD64", "I386", "I686", "X86",
     "riscv64", "RISCV64", "armv7l", "ppc64le", ""}

\* detect_target() on a machine that reports (sysname, machine)
CallDetectTarget ==
    /\ fn = NoFn
    /\ \E sysname \in AnySystems, machine \in AnyMachines :
          fn' = [name |-> "detect_target",
                 arg |-> [sysname |-> sysname, machine |-> machine],
                 res |-> detect_target(sysname, machine)]
    /\ UNCHANGED << main, procs, cli >>

\* archives and targets _extract_archive is applied to; a Target can be built
\* with any extension
AnyArchives == 1..6
AnyTargets ==
    { Target(os, "x86_64", ext) :
        os \in {"Linux", "Windows"}, ext \in {".tar.gz", ".zip", ".tar", ".rar", ""} }

\* _extract_archive(archive, out_bin, target)
CallExtractArchive ==
    /\ fn = NoFn
    /\ \E a \in AnyArchives, t \in AnyTargets,
          out_bin \in {Absent, Full(6, TRUE)}, tmp \in {Absent, Partial} :
          fn' = [name |-> "extract_archive",
                 arg |-> [a |-> a, target |-> t, out_bin |-> out_bin, tmp |-> tmp],
                 res |-> extract_archive(a, t, out_bin, tmp)]
    /\ UNCHANGED << main, procs, cli >>

(***************************************************************************)
(* The command line: main() of cli.py.  A command line is a subcommand and *)
(* the set of options given with it; --version is given with the value     *)
(* "v1" and --install-dir with the directory CustomDir.                    *)
(***************************************************************************)
Commands == {"install", "upgrade", "where", "uninstall"}
Options == {"--version", "--install-dir", "--no-verify", "--force", "--clean-cache"}
Argv(cmd, opts) == [cmd |-> cmd, opts |-> opts]
AnyArgv == { Argv(cmd, opts) : cmd \in Commands, opts \in SUBSET Options }

\* (mutant) the subparser of where defines --install-dir as the others do
Accepts_WhereToo(cmd) ==
    CASE cmd = "install" -> {"--version", "--install-dir", "--no-verify", "--force"}
      [] cmd = "upgrade" -> {"--version", "--install-dir", "--no-verify"}
      [] cmd = "uninstall" -> {"--install-dir", "--clean-cache"}
      [] OTHER -> {"--install-dir"}

\* the options the subparser of a subcommand defines
Accepts(cmd) ==
    CASE cmd = "install" -> {"--version", "--install-dir", "--no-verify", "--force"}
      [] cmd = "upgrade" -> {"--version", "--install-dir", "--no-verify"}
      [] cmd = "uninstall" -> {"--install-dir", "--clean-cache"}
      [] OTHER -> {}

CustomDir == << "custom" >>
\* default_install_dir(), as InstallDir
DefaultInstallDir == InstallDir

\* what main() does: exit status, the operation it performs, and its arguments
Did(exit, does, ver, verify, force_download, install_dir, path, clean_cache) ==
    [exit |-> exit, does |-> does, version |-> ver, verify |-> verify,
     force_download |-> force_download, install_dir |-> install_dir, path |-> path,
     clean_cache |-> clean_cache]

\* (mutant) upgrade forces a re-download only when --force could be given
cli_main_UpgradeUnforced(argv, nt) ==
    LET install_dir == IF "--install-dir" \in argv.opts THEN CustomDir
                                                         ELSE DefaultInstallDir
        name == IF nt THEN "neo4j-mcp.exe" ELSE "neo4j-mcp"
    IN  IF ~(argv.opts \subseteq Accepts(argv.cmd))
        THEN Did(2, "usage", "", TRUE, FALSE, << >>, << >>, FALSE)
        ELSE IF argv.cmd = "where"
        THEN Did(0, "print", "", TRUE, FALSE, install_dir, Append(install_dir, name), FALSE)
        ELSE IF argv.cmd = "uninstall"
        THEN Did(0, "uninstall", "", TRUE, FALSE, install_dir, Append(install_dir, name),
                 "--clean-cache" \in argv.opts)
        ELSE Did(0, "install_binary",
                 IF "--version" \in argv.opts THEN "v1" ELSE "",
                 "--no-verify" \notin argv.opts,
                 "--force" \in argv.opts,
                 install_dir, << >>, FALSE)

\* main() on the command line argv, with os.name == "nt" or not
cli_main(argv, nt) ==
    LET install_dir == IF "--install-dir" \in argv.opts THEN CustomDir
                                                         ELSE DefaultInstallDir
        name == IF nt THEN "neo4j-mcp.exe" ELSE "neo4j-mcp"
    IN  IF ~(argv.opts \subseteq Accepts(argv.cmd))
        THEN Did(2, "usage", "", TRUE, FALSE, << >>, << >>, FALSE)
        ELSE IF argv.cmd = "where"
        THEN Did(0, "print", "", TRUE, FALSE, install_dir, Append(install_dir, name), FALSE)
        ELSE IF argv.cmd = "uninstall"
        THEN Did(0, "uninstall", "", TRUE, FALSE, install_dir, Append(install_dir, name),
                 "--clean-cache" \in argv.opts)
        ELSE Did(0, "install_binary",
                 IF "--version" \in argv.opts THEN "v1" ELSE "",
                 "--no-verify" \notin argv.opts,
                 "--force" \in argv.opts \/ argv.cmd = "upgrade",
                 install_dir, << >>, FALSE)

\* main() on every command line
CallMain ==
    /\ fn = NoFn
    /\ \E argv \in AnyArgv, nt \in BOOLEAN :
          fn' = [name |-> "main", arg |-> [argv |-> argv, nt |-> nt],
                 res |-> cli_main(argv, nt)]
    /\ UNCHANGED << main, procs, cli >>

\* version texts beside the plain ones: a trailing separator, a leading ".",
\* a tag with a separator inside, an absolute path
AnyVersions == Versions \cup {"v1/", "./v1", "v1/x", "/abs"}
\* the targets detect_target can return
PathTargets ==
    { Target(os, arch, IF os = "Windows" THEN ".zip" ELSE ".tar.gz") :
        os \in {"Linux", "Darwin", "Windows"}, arch \in {"x86_64", "arm64"} }

\* archive_path and extracted_path, on two (version, target) pairs
CallCachePaths ==
    /\ fn = NoFn
    /\ \E v1 \in AnyVersions, v2 \in AnyVersions, t1 \in PathTargets, t2 \in PathTargets :
          fn' = [name |-> "cache_paths",
                 arg |-> [v1 |-> v1, t1 |-> t1, v2 |-> v2, t2 |-> t2],
                 res |-> [a1 |-> archive_path(v1, t1), x1 |-> extracted_path(v1, t1),
                          a2 |-> archive_path(v2, t2), x2 |-> extracted_path(v2, t2)]]
    /\ UNCHANGED << main, procs, cli >>

\* latest_version on every response of the release host
CallLatestVersion ==
    /\ fn = NoFn
    /\ \E resp \in LatestResponses :
          fn' = [name |-> "latest_version", arg |-> resp, res |-> latest_version(resp)]
    /\ UNCHANGED << main, procs, cli >>

\* expected digests: every text of hex digits in either case, of the length of a
\* digest or one shorter
AnyExpected ==
    UNION { [1..n -> {"0", "1", "a", "b", "A", "B"}] : n \in {HexLen - 1, HexLen} }

\* the comparison of install_binary, on the digest of every archive
CallMismatch ==
    /\ fn = NoFn
    /\ \E a \in Archives, expected \in AnyExpected :
          fn' = [name |-> "mismatch",
                 arg |-> [actual |-> Sha256(a), expected |-> expected],
                 res |-> Mismatch(Sha256(a), expected)]
    /\ UNCHANGED << main, procs, cli >>

\* _make_executable on a file of every mode, once and once more
CallMakeExecutable ==
    /\ fn = NoFn
    /\ \E mode \in SUBSET ModeBits, nt \in BOOLEAN :
          fn' = [name |-> "make_executable",
                 arg |-> [mode |-> mode, nt |-> nt],
                 res |-> [once |-> chmod_executable(mode, nt),
                          twice |-> chmod_executable(chmod_executable(mode, nt), nt)]]
    /\ UNCHANGED << main, procs, cli >>

NextPure ==
    \/ CallMakeExecutable
    \/ CallMismatch
    \/ CallCachePaths
    \/ CallLatestVersion
    \/ CallDownloadChecksums
    \/ CallExpectedSha
    \/ CallDetectTarget
    \/ CallExtractArchive
    \/ CallMain

\* the functions are applied on one machine
InitPure == Init /\ host = << "Linux", "x86_64" >>

SpecPure == InitPure /\ [][NextPure]_vars

(***************************************************************************)
(* Two processes run install_binary(version=v, verify=False,               *)
(* force_download=f) at the same time on one POSIX machine, against the    *)
(* same cache root and install directory.  A file that is open for writing *)
(* stays open when another process unlinks or renames it: the writer's     *)
(* bytes then go to the unlinked file, or to the path it was renamed to.   *)
(***************************************************************************)
\* the target of this host
HT == HostTarget(host)

\* everything the runs of the two processes leave alone
raceRest == << host, pc, call, target, version, chk, err, ret, obs, pre, prev, runs,
               at, fn, cli >>
mainRest == << dataRootExists, raceRest >>

RaceArchives == {2, 3}

\* the paths of process p
RArchive(p) == archive_path(procs[p].version, HT)
RExtracted(p) == extracted_path(procs[p].version, HT)
RTmpExtracted(p) == TmpOf(extracted_path(procs[p].version, HT))

\* (mutant) one temp name for the archives of all versions
RTmpArchive_OneName(p) == TmpOf(archive_path("v1", HT))

\* tmp_archive = archive.with_suffix(archive.suffix + ".tmp")
RTmpArchive(p) == TmpOf(archive_path(procs[p].version, HT))

\* the processes after path is unlinked: who had it open writes to no path
Unlinked(ps, path) ==
    [q \in Procs |-> IF ps[q].fd = path THEN [ps[q] EXCEPT !.fd = << >>] ELSE ps[q]]

\* the processes after src is renamed over dst
Renamed(ps, src, dst) ==
    [q \in Procs |-> IF ps[q].fd = dst THEN [ps[q] EXCEPT !.fd = << >>]
                     ELSE IF ps[q].fd = src THEN [ps[q] EXCEPT !.fd = dst]
                     ELSE ps[q]]

\* another process has the file of p open for writing too
SharedWrite(p) == \E q \in Procs \ {p} : procs[p].fd # << >> /\ procs[q].fd = procs[p].fd

\* what the file holds when p has written d and closed it: d, or a mixture
\* (0) when another process writes the same file
Written(p, d) == IF SharedWrite(p) THEN {d, 0} ELSE {d}

\* the files after p closes the file it wrote
WriteEnd(p, file) == IF procs[p].fd = << >> THEN fs ELSE [fs EXCEPT ![procs[p].fd] = file]

\* process p goes to position c
Goto(ps, p, c) == [ps EXCEPT ![p].pc = c]
\* process p ends in exception e
Raise(ps, p, e) == [ps EXCEPT ![p].pc = "error", ![p].err = e]

\* a call of install_binary by process p
Race_Start(p) ==
    /\ procs[p].pc = "idle"
    /\ \E v \in Versions, f \in BOOLEAN :
          procs' = [procs EXCEPT ![p] = [IdleProc EXCEPT !.pc = "mkdir", !.version = v,
                                                         !.force = f]]
    /\ UNCHANGED << fs, installDirExists, mainRest >>

\* install_dir.mkdir(parents=True, exist_ok=True), then the cache check
Race_CheckCache(p) ==
    /\ procs[p].pc = "mkdir"
    /\ installDirExists' = TRUE
    /\ procs' = Goto(procs, p, IF ~Exists(fs[RExtracted(p)]) \/ procs[p].force
                               THEN "unlink_tmp_archive" ELSE "copy")
    /\ UNCHANGED << fs, mainRest >>

\* if tmp_archive.exists(): tmp_archive.unlink(missing_ok=True)
Race_UnlinkTmpArchive(p) ==
    /\ procs[p].pc = "unlink_tmp_archive"
    /\ fs' = [fs EXCEPT ![RTmpArchive(p)] = Absent]
    /\ procs' = Goto(Unlinked(procs, RTmpArchive(p)), p, "download")
    /\ UNCHANGED << installDirExists, mainRest >>

\* _http_download: mkdir of the parents, urlopen(req), then open(dest, "wb")
Race_DownloadOpen(p) ==
    /\ procs[p].pc = "download"
    /\ \E resp \in DownloadResponses :
          IF resp.kind = "ok"
          THEN /\ fs' = [fs EXCEPT ![RTmpArchive(p)] = Partial]
               /\ procs' = [procs EXCEPT ![p].pc = "streaming", ![p].fd = RTmpArchive(p)]
          ELSE /\ fs' = fs
               /\ procs' = Raise(procs, p, IF resp.kind = "http" THEN "HTTPError"
                                                                  ELSE "URLError")
    /\ dataRootExists' = TRUE
    /\ UNCHANGED << installDirExists, raceRest >>

\* _http_download: the chunk loop, to the empty chunk; verify is False
Race_DownloadStream(p) ==
    /\ procs[p].pc = "streaming"
    /\ \E a \in RaceArchives :
       \E d \in Written(p, a) :
          /\ fs' = WriteEnd(p, Full(d, FALSE))
          /\ procs' = [procs EXCEPT ![p].pc = "unlink_archive", ![p].a = a,
                                    ![p].fd = << >>]
    /\ UNCHANGED << installDirExists, mainRest >>

\* archive.parent.mkdir(...); if archive.exists(): archive.unlink()
Race_UnlinkArchive(p) ==
    /\ procs[p].pc = "unlink_archive"
    /\ fs' = [fs EXCEPT ![RArchive(p)] = Absent]
    /\ procs' = Goto(Unlinked(procs, RArchive(p)), p, "rename_archive")
    /\ UNCHANGED << installDirExists, mainRest >>

\* tmp_archive.replace(archive): FileNotFoundError when the temp file is gone
Race_RenameArchive(p) ==
    /\ procs[p].pc = "rename_archive"
    /\ IF ~Exists(fs[RTmpArchive(p)])
       THEN /\ fs' = fs
            /\ procs' = Raise(procs, p, "FileNotFoundError")
       ELSE /\ fs' = [fs EXCEPT ![RArchive(p)] = fs[RTmpArchive(p)],
                                ![RTmpArchive(p)] = Absent]
            /\ procs' = Goto(Renamed(procs, RTmpArchive(p), RArchive(p)), p,
                             "extract_open")
    /\ UNCHANGED << installDirExists, mainRest >>

\* _extract_archive: open the archive and choose the entry; the entry's bytes
\* are read from the open archive
Race_ExtractOpen(p) ==
    /\ procs[p].pc = "extract_open"
    /\ LET f == fs[RArchive(p)]
       IN  IF ~Exists(f)
           THEN procs' = Raise(procs, p, "FileNotFoundError")
           ELSE IF f.st = "partial" \/ f.data = 0
           THEN procs' = Raise(procs, p, "ReadError")
           ELSE IF ~Candidate(f.data, HT).found
           THEN procs' = Raise(procs, p, "BinaryNotFound")
           ELSE procs' = [procs EXCEPT ![p].pc = "extract_write",
                                       ![p].payload = Candidate(f.data, HT).payload]
    /\ UNCHANGED << fs, installDirExists, mainRest >>

\* _extract_archive: open(tmp, "wb")
Race_ExtractWriteBegin(p) ==
    /\ procs[p].pc = "extract_write"
    /\ fs' = [fs EXCEPT ![RTmpExtracted(p)] = Partial]
    /\ procs' = [procs EXCEPT ![p].pc = "extract_writing", ![p].fd = RTmpExtracted(p)]
    /\ UNCHANGED << installDirExists, mainRest >>

\* _extract_archive: f.write(...) and close
Race_ExtractWriteEnd(p) ==
    /\ procs[p].pc = "extract_writing"
    /\ \E d \in Written(p, procs[p].payload) :
          fs' = WriteEnd(p, Full(d, FALSE))
    /\ procs' = [procs EXCEPT ![p].pc = "extract_unlink", ![p].fd = << >>]
    /\ UNCHANGED << installDirExists, mainRest >>

\* _extract_archive: if out_bin.exists(): out_bin.unlink()
Race_ExtractUnlink(p) ==
    /\ procs[p].pc = "extract_unlink"
    /\ fs' = [fs EXCEPT ![RExtracted(p)] = Absent]
    /\ procs' = Goto(Unlinked(procs, RExtracted(p)), p, "extract_rename")
    /\ UNCHANGED << installDirExists, mainRest >>

\* _extract_archive: tmp.replace(out_bin)
Race_ExtractRename(p) ==
    /\ procs[p].pc = "extract_rename"
    /\ IF ~Exists(fs[RTmpExtracted(p)])
       THEN /\ fs' = fs
            /\ procs' = Raise(procs, p, "FileNotFoundError")
       ELSE /\ fs' = [fs EXCEPT ![RExtracted(p)] = fs[RTmpExtracted(p)],
                                ![RTmpExtracted(p)] = Absent]
            /\ procs' = Goto(Renamed(procs, RTmpExtracted(p), RExtracted(p)), p,
                             "extract_chmod")
    /\ UNCHANGED << installDirExists, mainRest >>

\* _extract_archive: _make_executable(out_bin); path.stat() fails on no file
Race_ExtractChmod(p) ==
    /\ procs[p].pc = "extract_chmod"
    /\ IF ~Exists(fs[RExtracted(p)])
       THEN /\ fs' = fs
            /\ procs' = Raise(procs, p, "FileNotFoundError")
       ELSE /\ fs' = [fs EXCEPT ![RExtracted(p)] = make_executable(@)]
            /\ procs' = Goto(procs, p, "copy")
    /\ UNCHANGED << installDirExists, mainRest >>

\* shutil.copy2(extracted, tmp_final): the source is opened, then the destination
Race_CopyBegin(p) ==
    /\ procs[p].pc = "copy"
    /\ IF ~Exists(fs[RExtracted(p)])
       THEN /\ fs' = fs
            /\ procs' = Raise(procs, p, "FileNotFoundError")
       ELSE /\ fs' = [fs EXCEPT ![TmpFinalPath(HT)] = Partial]
            /\ procs' = [procs EXCEPT ![p].pc = "copying", ![p].fd = TmpFinalPath(HT),
                                      ![p].payload = fs[RExtracted(p)].data]
    /\ UNCHANGED << installDirExists, mainRest >>

\* shutil.copy2: the content is complete; the mode is then set by path
Race_CopyEnd(p) ==
    /\ procs[p].pc = "copying"
    /\ \E d \in Written(p, procs[p].payload) :
          fs' = WriteEnd(p, Full(d, FALSE))
    /\ procs' = [procs EXCEPT ![p].pc = "chmod_tmp_final", ![p].fd = << >>]
    /\ UNCHANGED << installDirExists, mainRest >>

\* copystat and _make_executable(tmp_final), both by path
Race_ChmodTmpFinal(p) ==
    /\ procs[p].pc = "chmod_tmp_final"
    /\ IF ~Exists(fs[TmpFinalPath(HT)])
       THEN /\ fs' = fs
            /\ procs' = Raise(procs, p, "FileNotFoundError")
       ELSE /\ fs' = [fs EXCEPT ![TmpFinalPath(HT)] = make_executable(@)]
            /\ procs' = Goto(procs, p, "unlink_final")
    /\ UNCHANGED << installDirExists, mainRest >>

\* if final_path.exists(): final_path.unlink()
Race_UnlinkFinal(p) ==
    /\ procs[p].pc = "unlink_final"
    /\ fs' = [fs EXCEPT ![FinalPath(HT)] = Absent]
    /\ procs' = Goto(Unlinked(procs, FinalPath(HT)), p, "rename_final")
    /\ UNCHANGED << installDirExists, mainRest >>

\* tmp_final.replace(final_path), then the return
Race_RenameFinal(p) ==
    /\ procs[p].pc = "rename_final"
    /\ IF ~Exists(fs[TmpFinalPath(HT)])
       THEN /\ fs' = fs
            /\ procs' = Raise(procs, p, "FileNotFoundError")
       ELSE /\ fs' = [fs EXCEPT ![FinalPath(HT)] = fs[TmpFinalPath(HT)],
                                ![TmpFinalPath(HT)] = Absent]
            /\ procs' = Goto(Renamed(procs, TmpFinalPath(HT), FinalPath(HT)), p, "done")
    /\ UNCHANGED << installDirExists, mainRest >>

NextRace ==
    \E p \in Procs :
        \/ Race_Start(p)
        \/ Race_CheckCache(p)
        \/ Race_UnlinkTmpArchive(p)
        \/ Race_DownloadOpen(p)
        \/ Race_DownloadStream(p)
        \/ Race_UnlinkArchive(p)
        \/ Race_RenameArchive(p)
        \/ Race_ExtractOpen(p)
        \/ Race_ExtractWriteBegin(p)
        \/ Race_ExtractWriteEnd(p)
        \/ Race_ExtractUnlink(p)
        \/ Race_ExtractRename(p)
        \/ Race_ExtractChmod(p)
        \/ Race_CopyBegin(p)
        \/ Race_CopyEnd(p)
        \/ Race_ChmodTmpFinal(p)
        \/ Race_UnlinkFinal(p)
        \/ Race_RenameFinal(p)

\* the two processes run on one POSIX machine
InitRace == Init /\ host = << "Linux", "x86_64" >>

SpecRace == InitRace /\ [][NextRace]_vars

(***************************************************************************)
(* The installer used through its command line: a sequence of install,     *)
(* upgrade, where and uninstall commands, each running to its end, for the *)
(* default install directory.                                              *)
(***************************************************************************)
MaxCommands == 3

\* the command lines of the subcommands cmds that the parser accepts and that
\* name no other install directory
CommandLines(cmds) ==
    { argv \in AnyArgv : /\ argv.cmd \in cmds
                         /\ cli_main(argv, FALSE).exit = 0
                         /\ "--install-dir" \notin argv.opts }

\* name = "neo4j-mcp.exe" if os.name == "nt" else "neo4j-mcp"; install_dir / name
CliPath(did) == did.path

\* the path is under the directory
Under(path, dir) == Len(path) > Len(dir) /\ SubSeq(path, 1, Len(dir)) = dir

\* (mutant) the cache directory is left as it is
rmtree_Nothing(files, dir) == files

\* (mutant) uninstall always empties the cache
CleanCache_Always(did) == TRUE

\* if args.clean_cache
CleanCache(did) == did.clean_cache

\* shutil.rmtree(cache_dir): nothing is left under the directory
rmtree(files, dir) == [p \in DOMAIN files |-> IF Under(p, dir) THEN Absent ELSE files[p]]

\* main(): install or upgrade; install_binary is entered
CliInstall ==
    /\ ~Running
    /\ cli.n < MaxCommands
    /\ \E argv \in CommandLines({"install", "upgrade"}), ev \in EnvVersions :
          LET did == cli_main(argv, IsNt(host[1]))
          IN  \E sk \in EnvSkips(did.verify) :
                 /\ Begin([version |-> did.version, env_version |-> ev,
                           verify |-> did.verify, env_skip |-> sk,
                           force_download |-> did.force_download])
                 /\ cli' = [n |-> cli.n + 1, cmd |-> argv.cmd, opts |-> argv.opts,
                            path |-> << >>, out |-> << >>,
                            was |-> IF cli.cmd = "uninstall" THEN cli.was ELSE NoWas]

\* main(): where
CliWhere ==
    /\ ~Running
    /\ cli.n < MaxCommands
    /\ \E argv \in CommandLines({"where"}) :
          LET did == cli_main(argv, IsNt(host[1]))
          IN  cli' = [n |-> cli.n + 1, cmd |-> argv.cmd, opts |-> argv.opts,
                      path |-> CliPath(did), out |-> << "Path" >>, was |-> NoWas]
    /\ pc' = "idle"
    /\ UNCHANGED << host, fs, installDirExists, dataRootExists, call, target, version,
                    chk, err, ret, obs, pre, prev, runs, at, fn, procs >>

\* main(): uninstall
CliUninstall ==
    /\ ~Running
    /\ cli.n < MaxCommands
    /\ \E argv \in CommandLines({"uninstall"}) :
          LET did == cli_main(argv, IsNt(host[1]))
              path == CliPath(did)
              found == Exists(fs[path])
              unlinked == IF found THEN [fs EXCEPT ![path] = Absent] ELSE fs
              clean == CleanCache(did)
          IN  /\ fs' = IF clean /\ dataRootExists THEN rmtree(unlinked, data_root)
                                                  ELSE unlinked
              /\ dataRootExists' = IF clean THEN FALSE ELSE dataRootExists
              /\ cli' = [n |-> cli.n + 1, cmd |-> argv.cmd, opts |-> argv.opts,
                         path |-> path,
                         out |-> << IF found THEN "Removed" ELSE "Not found" >>
                                 \o (IF ~clean THEN << >>
                                     ELSE IF dataRootExists THEN << "Removed cache" >>
                                     ELSE << "Cache not found" >>),
                         was |-> IF pc = "done"
                                 THEN [version |-> version, clean |-> clean]
                                 ELSE NoWas]
    /\ pc' = "idle"
    /\ pre' = [fs |-> fs, dir |-> installDirExists, root |-> dataRootExists]
    /\ UNCHANGED << host, installDirExists, call, target, version, chk, err, ret, obs,
                    prev, runs, at, fn, procs >>

NextCli ==
    \/ CliInstall
    \/ CliWhere
    \/ CliUninstall
    \/ DetectTarget
    \/ ResolveVersion
    \/ CheckCache
    \/ UnlinkTmpArchive
    \/ DownloadOpen
    \/ DownloadStream
    \/ Verify
    \/ UnlinkArchive
    \/ RenameArchive
    \/ ExtractOpen
    \/ ExtractWriteBegin
    \/ ExtractWriteEnd
    \/ ExtractUnlink
    \/ ExtractRename
    \/ ExtractChmod
    \/ CopyBegin
    \/ CopyEnd
    \/ ChmodTmpFinal
    \/ UnlinkFinal
    \/ RenameFinal
    \/ Return

SpecCli == Init /\ [][NextCli]_vars

(***************************************************************************)
(* Properties.                                                             *)
(***************************************************************************)
Final == fs[FinalPath(HT)]

\* the run compared the digest of the download with the manifest's, and they differ
DigestDiffers ==
    /\ chk.expected.some
    /\ chk.expected.val # << >>
    /\ chk.actual.some
    /\ Lower(chk.actual.val) # Lower(chk.expected.val)

\* the run found the extracted binary of its version cached and was not forced
CacheHit ==
    /\ pc \in {"copy", "copying", "chmod_tmp_final", "unlink_final", "rename_final",
               "return", "done"}
    /\ Exists(pre.fs[Extracted])
    /\ ~call.force_download

\* C1 (as stated): with verification on and a manifest digest that differs from
\* the digest of the download, install_binary fails with the checksum error and
\* no archive exists at the canonical archive path afterwards, from every prior
\* cache state.
C1_NoArchiveAfterMismatch ==
    DigestDiffers =>
        /\ pc = "error"
        /\ err = "ChecksumMismatch"
        /\ ~Exists(fs[Archive])

\* C1 (amended): such a run fails with the checksum error, the downloaded temp
\* archive is deleted, and the canonical archive path is as it was before the
\* run: empty if it was empty, still the earlier archive if there was one.
C1_MismatchLeavesArchiveAsBefore ==
    DigestDiffers =>
        /\ pc = "error"
        /\ err = "ChecksumMismatch"
        /\ ~Exists(fs[TmpArchive])
        /\ fs[Archive] = pre.fs[Archive]

C1_Witness ==
    /\ pc = "error"
    /\ err = "ChecksumMismatch"
    /\ call.force_download
    /\ Exists(fs[Archive])

\* C2: a checksum mismatch is a hard stop: the run ends in the error state, the
\* extractor was never invoked, and the cached extracted binary and the file at
\* the final install path are what they were before the run.
C2_MismatchIsHardStop ==
    DigestDiffers =>
        /\ pc = "error"
        /\ obs.extract = 0
        /\ fs[Extracted] = pre.fs[Extracted]
        /\ fs[TmpExtracted] = pre.fs[TmpExtracted]
        /\ Final = pre.fs[FinalPath(HT)]

C2_Witness ==
    /\ DigestDiffers
    /\ pc = "error"
    /\ Exists(fs[Extracted])
    /\ Exists(Final)

\* C3 (as stated): a run that dies during extraction or installation, before the
\* final rename, leaves the binary installed before the run present with its
\* previous content.
C3_CrashKeepsInstalledBinary ==
    ( /\ pc = "crashed"
      /\ at \in {"extract_open", "extract_write", "extract_writing", "extract_unlink",
                 "extract_rename", "extract_chmod", "copy", "copying",
                 "chmod_tmp_final", "unlink_final", "rename_final"}
      /\ Exists(pre.fs[FinalPath(HT)]) )
    => Final = pre.fs[FinalPath(HT)]

\* C4: in every state, crashes included, a canonical file (versioned archive,
\* versioned extracted binary, installed binary) is absent or complete; a
\* partially written file exists only under a .tmp name.
CanonicalPaths ==
    { archive_path(v, HT) : v \in Versions }
    \cup { extracted_path(v, HT) : v \in Versions }
    \cup { FinalPath(HT) }

C4_CanonicalFilesComplete ==
    \A p \in DOMAIN fs :
        fs[p].st = "partial" => p \notin CanonicalPaths /\ p \in { TmpOf(q) : q \in CanonicalPaths }

C4_Witness ==
    /\ pc = "crashed"
    /\ fs[TmpOf(extracted_path("v1", HT))].st = "partial"
    /\ fs[extracted_path("v1", HT)].st = "full"
    /\ Final.st = "full"

\* the version was given by the environment or by the argument
Given == call.env_version # "" \/ call.version # ""

\* C5 (as stated): a run that finds the extracted binary of its version cached,
\* without force, makes no network call at all (no latest-release query, no
\* archive download, no manifest fetch) and no extraction call, and ends with an
\* installed binary.
C5_CacheHitNoNetwork ==
    CacheHit =>
        /\ obs.latest = 0
        /\ obs.download = 0
        /\ obs.manifest = 0
        /\ obs.extract = 0
        /\ (pc = "done" => Final.st = "full")

\* C5 (amended): such a run makes no archive download, no manifest fetch and no
\* extraction call and ends with the cached binary installed; it makes no network
\* call at all when the version is given by NEO4J_MCP_VERSION or by the argument,
\* and exactly one, the latest-release query, when the version is not given.
C5_CacheHitNoDownload ==
    CacheHit =>
        /\ obs.latest = (IF Given THEN 0 ELSE 1)
        /\ obs.download = 0
        /\ obs.manifest = 0
        /\ obs.sha = 0
        /\ obs.extract = 0
        /\ (pc = "done" => Final.st = "full" /\ Final.data = fs[Extracted].data)

C5_Witness ==
    /\ CacheHit
    /\ pc = "done"
    /\ Given
    /\ obs = NoObs
    /\ Final.st = "full"

\* C6: a second run right after a successful one, with the same resolved version
\* and no force, leaves every file as the first run left it and returns the same
\* (install path, version, extracted path).
C6_SecondRunChangesNothing ==
    ( /\ pc = "done"
      /\ prev.ok
      /\ prev.version = version
      /\ ~call.force_download )
    => /\ fs = pre.fs
       /\ installDirExists = pre.dir
       /\ ret = prev.ret

C6_Witness ==
    /\ pc = "done"
    /\ prev.ok
    /\ prev.version = version
    /\ ~call.force_download
    /\ Exists(fs[Archive])
    /\ Final.st = "full"

\* the run has resolved its version and still holds its arguments
Resolved == version # "" /\ pc # "crashed"

\* C7: the resolved version is NEO4J_MCP_VERSION if that is set, even when a
\* version argument is passed; otherwise the argument if one is passed; the
\* latest-release API is queried exactly when neither is given.
C7_VersionPrecedence ==
    /\ Resolved /\ call.env_version # "" => version = call.env_version
    /\ Resolved /\ call.env_version = "" /\ call.version # "" => version = call.version
    /\ Resolved /\ ~Given => obs.latest = 1
    /\ pc # "crashed" /\ Given => obs.latest = 0

C7_Witness ==
    /\ pc = "done"
    /\ call.env_version = "v2"
    /\ call.version = "v1"
    /\ version = "v2"
    /\ ret.version = "v2"

\* the manifest request of the run found no manifest, or one without an entry
\* for the asset
NothingToVerify ==
    \/ chk.fetched \in {"404", "403", "URLError"}
    \/ chk.fetched = "200" /\ ~chk.expected.some

\* C8: with verification on, a manifest that is absent or has no entry for the
\* asset is no error: no digest is computed or compared, the run goes on to
\* extraction and installation, and fails, if at all, only in extraction.
C8_NoManifestIsSkipped ==
    NothingToVerify =>
        /\ call.verify /\ call.env_skip = ""
        /\ obs.sha = 0
        /\ ~chk.actual.some
        /\ pc \notin {"verify", "crashed"}
        /\ (pc = "error" => err = "BinaryNotFound" /\ obs.extract = 1)
        /\ (pc = "done" => obs.extract = 1 /\ Final.st = "full")

C8_Witness ==
    /\ pc = "done"
    /\ chk.fetched = "404"
    /\ obs.extract = 1
    /\ Final.st = "full"

\* C9: with verify false, or with NEO4J_MCP_SKIP_VERIFY set, the run never
\* requests the manifest and never computes or compares a digest; it leaves the
\* verification step as a run that passed it does, with the download in place.
C9_SkipVerifyFetchesNothing ==
    (Running \/ pc \in {"done", "error"}) /\ (~call.verify \/ call.env_skip # "") =>
        /\ obs.manifest = 0
        /\ obs.sha = 0
        /\ chk = NoChk
        /\ err \notin {"ChecksumMismatch", "TimeoutError"}
        /\ (pc = "unlink_archive" => fs[TmpArchive].st = "full")

C9_Witness ==
    /\ pc = "done"
    /\ call.verify
    /\ call.env_skip = "1"
    /\ obs.download = 1
    /\ obs.extract = 1

\* C10: _download_checksums_text returns the manifest text of a successful
\* request, returns absent for HTTP 404 and 403 and for a URL-level error, and
\* lets every other HTTP status error escape.
C10_ManifestFetchOutcomes ==
    fn.name = "download_checksums_text" =>
        /\ fn.arg.kind = "ok" =>
              fn.res.raised = "" /\ fn.res.value.some /\ fn.res.value.text = Decode(fn.arg.body)
        /\ fn.arg.kind = "http" /\ fn.arg.code \in {404, 403} =>
              fn.res.raised = "" /\ ~fn.res.value.some
        /\ fn.arg.kind = "http" /\ fn.arg.code \notin {404, 403} =>
              fn.res.raised = "HTTPError"
        /\ fn.arg.kind = "url" =>
              fn.res.raised = "" /\ ~fn.res.value.some

C10_Witness ==
    /\ fn.name = "download_checksums_text"
    /\ fn.arg.kind = "http"
    /\ fn.arg.code = 403
    /\ fn.res = [raised |-> "", value |-> NoText]

\* C11 (as stated): every transport or HTTP error of a network call of the run
\* (latest-release query, archive download, manifest fetch) ends the run in
\* failure; the only error that does not is an HTTP 404 or 403 on the manifest
\* fetch.
C11_OnlyManifest404Or403Survive ==
    /\ obs.latest_status \notin {"", "200"} => pc = "error"
    /\ obs.download_status \notin {"", "200"} => pc = "error"
    /\ chk.fetched \notin {"no", "200", "404", "403"} => pc = "error"

\* C11 (amended): every transport or HTTP error of the latest-release query and
\* of the archive download ends the run in failure, and so does every error of
\* the manifest fetch except three: an HTTP 404, an HTTP 403 and a URL-level
\* transport error (URLError), after which the run goes on with no manifest and
\* fails, if at all, only in extraction.
C11_ManifestUrlErrorSurvivesToo ==
    /\ obs.latest_status \notin {"", "200"} =>
           pc = "error" /\ err \in {"HTTPError", "URLError"}
    /\ obs.download_status \notin {"", "200"} =>
           pc = "error" /\ err \in {"HTTPError", "URLError", "ReadError"}
    /\ chk.fetched \notin {"no", "200", "404", "403", "URLError"} =>
           pc = "error" /\ err \in {"HTTPError", "TimeoutError"}
    /\ chk.fetched \in {"404", "403", "URLError"} =>
           /\ ~chk.expected.some
           /\ pc = "error" => err = "BinaryNotFound"

C11_Witness ==
    /\ chk.fetched = "URLError"
    /\ pc = "done"
    /\ obs.latest_status = "200"
    /\ obs.download_status = "200"
    /\ Final.st = "full"

\* the non-blank lines of the manifest the function was applied to
FnLines == NonBlank(fn.arg.text)
\* line i is the file name and the next non-blank line starts with "sha256:"
IsBlockAt(i) ==
    /\ i \in 1..(Len(FnLines) - 1)
    /\ FnLines[i] = << NameWord(fn.arg.filename) >>
    /\ FnLines[i + 1][1].k = "sha"
\* line i is a well-formed digest, then blanks, then the file name as last word
IsLegacyAt(i) ==
    /\ i \in 1..Len(FnLines)
    /\ Len(FnLines[i]) >= 2
    /\ FnLines[i][1].k = "hex"
    /\ Len(FnLines[i][1].hex) = HexLen
    /\ \A j \in 1..HexLen : FnLines[i][1].hex[j] \in {"0", "1", "a", "b", "A", "B"}
    /\ FnLines[i][Len(FnLines[i])] = NameWord(fn.arg.filename)
HasBlock == \E i \in 1..Len(FnLines) : IsBlockAt(i)
HasLegacy == \E i \in 1..Len(FnLines) : IsLegacyAt(i)

\* C12: _expected_sha_from_checksums: when a line equal to the file name is
\* followed (blank lines aside) by a line starting with "sha256:", the result is
\* what follows that prefix, in lower case, for the first such line; else when a
\* line has the shape "<digest> <filename>", the result is that digest in lower
\* case, for the first such line; when neither is there, the result is absent.
C12_ExtractDigest ==
    fn.name = "expected_sha_from_checksums" =>
        /\ HasBlock =>
              \E i \in 1..Len(FnLines) :
                 /\ IsBlockAt(i)
                 /\ \A j \in 1..(i - 1) : ~IsBlockAt(j)
                 /\ fn.res = SomeDigest(Lower(AfterPrefix(FnLines[i + 1])))
        /\ ~HasBlock /\ HasLegacy =>
              \E i \in 1..Len(FnLines) :
                 /\ IsLegacyAt(i)
                 /\ \A j \in 1..(i - 1) : ~IsLegacyAt(j)
                 /\ fn.res = SomeDigest(Lower(FnLines[i][1].hex))
        /\ ~HasBlock /\ ~HasLegacy => fn.res = NoDigest
        /\ fn.res.some => \A j \in 1..Len(fn.res.val) : fn.res.val[j] \notin {"A", "B"}

C12_Witness ==
    /\ fn.name = "expected_sha_from_checksums"
    /\ HasBlock
    /\ HasLegacy
    /\ fn.arg.text[1] = << HexWord(Upper(Sha256(2))), NameWord(PureAsset) >>
    /\ fn.res = SomeDigest(Sha256(3))

\* the arch tag documented for a machine string, "" if there is none
ArchTagOf(machine) ==
    CASE machine \in {"arm64", "aarch64", "ARM64", "Aarch64"} -> "arm64"
      [] machine \in {"x86_64", "amd64", "X86_64", "AMD64"} -> "x86_64"
      [] machine \in {"i386", "i686", "x86", "I386", "I686", "X86"} -> "i386"
      [] OTHER -> ""

\* C13: detect_target: for an OS in {Darwin, Linux, Windows} and a machine string
\* that is, case aside, one of arm64, aarch64 / x86_64, amd64 / i386, i686, x86,
\* the result has that OS, the arch tag arm64 / x86_64 / i386, and the archive
\* extension .zip exactly on Windows and .tar.gz otherwise; for every other OS
\* name or machine string it fails with the unsupported-platform error and
\* returns no Target.
C13_DetectTarget ==
    fn.name = "detect_target" =>
        LET os == fn.arg.sysname
            tag == ArchTagOf(fn.arg.machine)
        IN  IF os \in {"Darwin", "Linux", "Windows"} /\ tag # ""
            THEN /\ fn.res.err = ""
                 /\ fn.res.target.os_name = os
                 /\ fn.res.target.arch = tag
                 /\ fn.res.target.archive_ext = ".zip" <=> os = "Windows"
                 /\ fn.res.target.archive_ext = ".tar.gz" <=> os # "Windows"
            ELSE /\ fn.res.err \in {"UnsupportedOS", "UnsupportedArch"}
                 /\ fn.res.target = NoTarget

C13_Witness ==
    /\ fn.name = "detect_target"
    /\ fn.arg = [sysname |-> "Windows", machine |-> "AMD64"]
    /\ fn.res = [err |-> "", target |-> Target("Windows", "x86_64", ".zip")]

\* the entries of the archive that discovery looks at: the regular files of a
\* gzip-tar, every entry of a zip
FnEntries ==
    LET es == ArchiveEntries(fn.arg.a)
    IN  { i \in 1..Len(es) : fn.arg.target.archive_ext = ".tar.gz" => es[i].isfile }
FnExact ==
    { i \in FnEntries :
        ArchiveEntries(fn.arg.a)[i].name = extracted_binary_name(fn.arg.target) }
FnLiteral ==
    { i \in FnEntries : ArchiveEntries(fn.arg.a)[i].name \in {"neo4j-mcp", "neo4j-mcp.exe"} }
\* the output binary is complete and holds the bytes of entry i
FnExtracted(i) ==
    /\ fn.res.raised = ""
    /\ fn.res.out_bin.st = "full"
    /\ fn.res.out_bin.data = ArchiveEntries(fn.arg.a)[i].payload
    /\ fn.res.tmp = Absent

\* C14: binary discovery of _extract_archive: when an entry is named as the
\* platform's binary, such an entry is extracted; otherwise, when an entry is
\* named neo4j-mcp or neo4j-mcp.exe, such an entry is extracted; when no entry
\* matches either rule, extraction fails with the binary-not-found error and the
\* output binary path and its temp sibling are as before.
C14_BinaryDiscovery ==
    fn.name = "extract_archive" /\ fn.arg.target.archive_ext \in {".tar.gz", ".zip"} =>
        /\ FnExact # {} => \E i \in FnExact : FnExtracted(i)
        /\ FnExact = {} /\ FnLiteral # {} => \E i \in FnLiteral : FnExtracted(i)
        /\ FnExact = {} /\ FnLiteral = {} =>
              /\ fn.res.raised = "BinaryNotFound"
              /\ fn.res.out_bin = fn.arg.out_bin
              /\ fn.res.tmp = fn.arg.tmp

C14_Witness ==
    /\ fn.name = "extract_archive"
    /\ fn.arg.a = 4
    /\ fn.arg.target = Target("Linux", "x86_64", ".tar.gz")
    /\ fn.arg.out_bin = Full(6, TRUE)
    /\ fn.res.raised = ""
    /\ fn.res.out_bin.data = 2

\* C15 (as stated): for both archive formats, the entry binary discovery selects
\* for writing is a regular file; a directory entry named neo4j-mcp is never
\* selected.
C15_OnlyRegularFilesSelected ==
    pc \in {"extract_write", "extract_writing"} =>
        Candidate(fs[Archive].data, target).isfile

\* C16: for every target whose archive extension is neither .tar.gz nor .zip,
\* _extract_archive fails with the unsupported-archive error, without opening
\* the archive and without writing the output binary or its .tmp sibling.
C16_UnsupportedArchiveFormat ==
    fn.name = "extract_archive" /\ fn.arg.target.archive_ext \notin {".tar.gz", ".zip"} =>
        /\ fn.res.raised = "UnsupportedArchive"
        /\ ~fn.res.opened
        /\ fn.res.out_bin = fn.arg.out_bin
        /\ fn.res.tmp = fn.arg.tmp

C16_Witness ==
    /\ fn.name = "extract_archive"
    /\ fn.arg.target = Target("Linux", "x86_64", ".rar")
    /\ fn.arg.a = 6
    /\ fn.arg.out_bin = Full(6, TRUE)
    /\ fn.arg.tmp = Partial
    /\ fn.res.raised = "UnsupportedArchive"

\* the positions of a run, in the order of the code
PcOrder ==
    << "detect", "resolve", "mkdir", "unlink_tmp_archive", "download", "streaming",
       "verify", "unlink_archive", "rename_archive", "extract_open", "extract_write",
       "extract_writing", "extract_unlink", "extract_rename", "extract_chmod", "copy",
       "copying", "chmod_tmp_final", "unlink_final", "rename_final", "return" >>
PcPos(p) == CHOOSE i \in 1..Len(PcOrder) : PcOrder[i] = p

\* the pipeline step a position belongs to: 1 ResolveTarget, 2 ResolveVersion,
\* 3 CheckCache, 4 Download, 5 Verify (with the placing of the verified archive),
\* 6 Extract, 7 Install
StepOf(p) ==
    CASE p = "detect" -> 1
      [] p = "resolve" -> 2
      [] p = "mkdir" -> 3
      [] p \in {"unlink_tmp_archive", "download", "streaming"} -> 4
      [] p \in {"verify", "unlink_archive", "rename_archive"} -> 5
      [] p \in {"extract_open", "extract_write", "extract_writing", "extract_unlink",
                "extract_rename", "extract_chmod"} -> 6
      [] OTHER -> 7

\* C17: the steps of one run are strictly sequential: a run starts in
\* ResolveTarget, never goes back to a position it has left (the one position
\* it may stay at is the chunk loop inside Download), and goes from a step to
\* the next one only, except that CheckCache goes straight to Install
\* exactly when the extracted binary is cached and force is off, and to
\* Download otherwise.
C17_StepsStrictlySequential ==
    [][ /\ ~Running /\ Running' => pc' = "detect"
        /\ Running /\ Running' =>
              /\ PcPos(pc') >= PcPos(pc)
              /\ pc' = pc => pc = "streaming"
              /\ \/ StepOf(pc') \in {StepOf(pc), StepOf(pc) + 1}
                 \/ (StepOf(pc) = 3 /\ StepOf(pc') = 7)
              /\ StepOf(pc) = 3 =>
                    (StepOf(pc') = 7 <=> Exists(fs[Extracted]) /\ ~call.force_download)
              /\ StepOf(pc) = 3 =>
                    (StepOf(pc') = 4 <=> ~Exists(fs[Extracted]) \/ call.force_download)
      ]_vars

C17_Witness ==
    /\ pc = "done"
    /\ prev.ok
    /\ call.force_download
    /\ Exists(pre.fs[Extracted])
    /\ obs.download = 1
    /\ obs.extract = 1

\* C18 (as stated): the downloaded temp file replaces the canonical archive path
\* as part of Download, before Verify runs: when verification starts the archive
\* is at its canonical path and the temp file is gone.
C18_ArchivePlacedBeforeVerify ==
    pc = "verify" => Exists(fs[Archive]) /\ ~Exists(fs[TmpArchive])

\* C18 (amended): through verification the download stays at the .tmp sibling
\* and the canonical archive path is as it was before the run; the digest that
\* is compared is that of the temp file; the temp file replaces the canonical
\* archive only after verification has passed or has been skipped.
C18_ArchivePlacedAfterVerify ==
    /\ pc = "verify" => fs[TmpArchive].st = "full" /\ fs[Archive] = pre.fs[Archive]
    /\ pc = "unlink_archive" =>
          /\ fs[TmpArchive].st = "full"
          /\ fs[Archive] = pre.fs[Archive]
          /\ chk.actual.some => chk.actual.val = Sha256(fs[TmpArchive].data)
    /\ Running /\ version # "" /\ fs[Archive] # pre.fs[Archive] =>
          /\ PcPos(pc) > PcPos("unlink_archive")
          /\ chk.expected.some /\ chk.expected.val # << >> =>
                chk.actual.some /\ chk.actual.val = Lower(chk.expected.val)
          /\ pc \in {"extract_open", "extract_write"} =>
                (chk.actual.some => chk.actual.val = Sha256(fs[Archive].data))

C18_Witness ==
    /\ pc = "unlink_archive"
    /\ call.force_download
    /\ chk.actual.some
    /\ Exists(fs[Archive])
    /\ fs[Archive].data # fs[TmpArchive].data

\* the run is in a step before Install, or has failed or died in one
BeforeInstall ==
    \/ Running /\ StepOf(pc) < 7
    \/ pc = "error"
    \/ pc = "crashed" /\ StepOf(at) < 7
\* the files of the install directory are what they were when the run started
InstallDirFilesUnchanged ==
    /\ Final = pre.fs[FinalPath(HT)]
    /\ fs[TmpFinalPath(HT)] = pre.fs[TmpFinalPath(HT)]

BinaryPayloads(a) ==
    { ArchiveEntries(a)[i].payload :
        i \in { j \in 1..Len(ArchiveEntries(a)) :
                   ArchiveEntries(a)[j].name \in {"neo4j-mcp", "neo4j-mcp.exe"} } }

C21_OneActiveBinary ==
    pc = "done" /\ prev.ok =>
        /\ installDirExists
        /\ Final.st = "full"
        /\ Final.data = fs[extracted_path(version, HT)].data
        /\ ~Exists(fs[TmpFinalPath(HT)])
        /\ fs[extracted_path(version, HT)].st = "full"
        /\ fs[extracted_path(prev.version, HT)].st = "full"
        /\ prev.version # version =>
              fs[extracted_path(prev.version, HT)] = pre.fs[extracted_path(prev.version, HT)]

C21_Witness ==
    /\ pc = "done"
    /\ prev.ok
    /\ prev.version = "v1"
    /\ version = "v2"
    /\ fs[extracted_path("v1", HT)].st = "full"
    /\ Final.data = fs[extracted_path("v2", HT)].data
    /\ Final.data # fs[extracted_path("v1", HT)].data

\* process p has started and the other process q has gone past the cache check
Started(q) == procs[q].pc \notin {"idle", "mkdir"}
\* the temp file process p is about to rename is not what p wrote there
ArchiveTmpClobbered(p) ==
    /\ procs[p].pc \in {"unlink_archive", "rename_archive"}
    /\ fs[RTmpArchive(p)] # Full(procs[p].a, FALSE)
ExtractedTmpClobbered(p) ==
    /\ procs[p].pc \in {"extract_unlink", "extract_rename"}
    /\ fs[RTmpExtracted(p)] # Full(procs[p].payload, FALSE)
FinalTmpClobbered(p) ==
    /\ procs[p].pc \in {"chmod_tmp_final", "unlink_final", "rename_final"}
    /\ fs[TmpFinalPath(HT)].st # "full" \/ fs[TmpFinalPath(HT)].data # procs[p].payload

\* C22: two runs at the same time derive their temp-file names from the final
\* paths only: runs of the same version use the same temp names in the cache,
\* runs of different versions different ones, and all runs the same temp name in
\* the install directory; a run finds its temp file overwritten or removed
\* before it renames it, or fails on a missing or unreadable file, only when the
\* other run has been at work under the same name.
C22_TempNamesShared ==
    \A p \in Procs :
        LET q == 3 - p
        IN  /\ Started(p) /\ Started(q) =>
                  /\ procs[p].version = procs[q].version <=> RTmpArchive(p) = RTmpArchive(q)
                  /\ procs[p].version = procs[q].version
                        <=> RTmpExtracted(p) = RTmpExtracted(q)
            /\ ArchiveTmpClobbered(p) =>
                  Started(q) /\ procs[q].version = procs[p].version
            /\ ExtractedTmpClobbered(p) =>
                  Started(q) /\ procs[q].version = procs[p].version
            /\ FinalTmpClobbered(p) => Started(q)
            /\ procs[p].err \in {"FileNotFoundError", "ReadError"} => Started(q)

C22_Witness ==
    /\ procs[1].pc = "rename_archive"
    /\ procs[2].pc \in {"unlink_archive", "rename_archive"}
    /\ procs[1].a # procs[2].a
    /\ fs[RTmpArchive(1)] = Full(procs[2].a, FALSE)

\* main() was applied to a command line its parser accepts
FnMainOk == fn.name = "main" /\ fn.res.exit = 0

\* C23: upgrade always calls the pipeline with force_download true; install
\* calls it with force_download true exactly when --force is given; for both,
\* verify is false exactly when --no-verify is given, and the version and the
\* install directory given on the command line are passed through.
C23_CliForceMapping ==
    FnMainOk /\ fn.arg.argv.cmd \in {"install", "upgrade"} =>
        /\ fn.res.does = "install_binary"
        /\ fn.arg.argv.cmd = "upgrade" => fn.res.force_download
        /\ fn.arg.argv.cmd = "install" =>
              (fn.res.force_download <=> "--force" \in fn.arg.argv.opts)
        /\ ~fn.res.verify <=> "--no-verify" \in fn.arg.argv.opts
        /\ fn.res.version = (IF "--version" \in fn.arg.argv.opts THEN "v1" ELSE "")
        /\ fn.res.install_dir = (IF "--install-dir" \in fn.arg.argv.opts THEN << "custom" >>
                                                                         ELSE << "bin" >>)

C23_Witness ==
    /\ fn.name = "main"
    /\ fn.arg.argv = Argv("upgrade", {"--no-verify", "--install-dir"})
    /\ fn.res.does = "install_binary"
    /\ fn.res.force_download
    /\ ~fn.res.verify
    /\ fn.res.install_dir = << "custom" >>

\* C24 (as stated): each of install, upgrade, where and uninstall accepts an
\* install-directory override, and the override, when given, is the directory
\* the subcommand operates on or reports.
C24_EveryCommandTakesInstallDir ==
    ( /\ fn.name = "main"
      /\ "--install-dir" \in fn.arg.argv.opts
      /\ (fn.arg.argv.opts \ {"--install-dir"}) \subseteq Accepts(fn.arg.argv.cmd) )
    => /\ fn.res.exit = 0
       /\ fn.res.install_dir = << "custom" >>
       /\ fn.arg.argv.cmd \in {"where", "uninstall"} =>
             fn.res.path = << "custom", IF fn.arg.nt THEN "neo4j-mcp.exe" ELSE "neo4j-mcp" >>


\* the binary name the command line uses on the host main() ran on
FnName == IF fn.arg.nt THEN "neo4j-mcp.exe" ELSE "neo4j-mcp"

\* C24 (amended): install, upgrade and uninstall accept an install-directory
\* override and operate on it when it is given, and on the platform default
\* otherwise; where accepts no override: given one it ends with a usage error
\* (exit status 2) and reports nothing, and without one it reports the binary
\* under the platform default.
C24_InstallDirOverride ==
    fn.name = "main" =>
        LET cmd == fn.arg.argv.cmd
            opts == fn.arg.argv.opts
            given == "--install-dir" \in opts
        IN  /\ cmd = "where" /\ given => fn.res.exit = 2 /\ fn.res.does = "usage"
            /\ cmd = "where" /\ opts = {} =>
                  /\ fn.res.exit = 0
                  /\ fn.res.does = "print"
                  /\ fn.res.path = << "bin", FnName >>
            /\ cmd # "where" /\ fn.res.exit = 0 =>
                  /\ fn.res.install_dir = (IF given THEN << "custom" >> ELSE << "bin" >>)
                  /\ cmd = "uninstall" => fn.res.path = Append(fn.res.install_dir, FnName)
            /\ cmd = "install" /\ opts = {"--install-dir"} => fn.res.exit = 0
            /\ cmd = "upgrade" /\ opts = {"--install-dir"} => fn.res.exit = 0
            /\ cmd = "uninstall" /\ opts = {"--install-dir"} => fn.res.exit = 0

C24_Witness ==
    /\ fn.name = "main"
    /\ fn.arg.argv = Argv("where", {"--install-dir"})
    /\ fn.res.exit = 2


\* the last command was uninstall, and it has ended
Uninstalled == cli.cmd = "uninstall" /\ pc = "idle"

CachePaths == { p \in DOMAIN fs : Under(p, data_root) }

\* C25: uninstall removes <install-dir>/<binary-name> if it exists and otherwise
\* reports "Not found", in both cases ending normally; without --clean-cache the
\* cache root and everything under it are as before; with --clean-cache the
\* cache root is removed with everything under it if it was present, and is
\* reported as not found otherwise.
C25_Uninstall ==
    Uninstalled =>
        /\ cli.path = << "bin", IF host[1] = "Windows" THEN "neo4j-mcp.exe"
                                                       ELSE "neo4j-mcp" >>
        /\ ~Exists(fs[cli.path])
        /\ cli.out[1] = (IF Exists(pre.fs[cli.path]) THEN "Removed" ELSE "Not found")
        /\ \A p \in DOMAIN fs \ (CachePaths \cup {cli.path}) : fs[p] = pre.fs[p]
        /\ IF "--clean-cache" \in cli.opts
           THEN /\ \A p \in CachePaths : ~Exists(fs[p])
                /\ ~dataRootExists
                /\ cli.out = << cli.out[1], IF pre.root THEN "Removed cache"
                                                        ELSE "Cache not found" >>
           ELSE /\ \A p \in CachePaths : fs[p] = pre.fs[p]
                /\ dataRootExists = pre.root
                /\ cli.out = << cli.out[1] >>

C25_Witness ==
    /\ Uninstalled
    /\ "--clean-cache" \in cli.opts
    /\ cli.out = << "Removed", "Removed cache" >>
    /\ \E p \in CachePaths : Exists(pre.fs[p])


\* latest_version was applied to a response the request returned
FnLatestOk == fn.name = "latest_version" /\ fn.arg.kind = "ok"
\* the RuntimeError "Could not determine latest release tag_name from GitHub API."
ReleaseLookupError == "NoTagName"

FnPaths == fn.name = "cache_paths"
\* neo4j-mcp_<os>_<arch><ext>
FnAsset(t) == "neo4j-mcp_" \o t.os_name \o "_" \o t.arch \o t.archive_ext
FnBinary(t) == IF t.os_name = "Windows" THEN "neo4j-mcp.exe" ELSE "neo4j-mcp"
\* the paths of a plain version are root/versions/<version>/<asset> and
\* root/versions/<version>/<binary-name>
FnLayout ==
    /\ fn.arg.v1 \in {"v1", "v2"} =>
          /\ fn.res.a1 = << "data", "versions", fn.arg.v1, FnAsset(fn.arg.t1) >>
          /\ fn.res.x1 = << "data", "versions", fn.arg.v1, FnBinary(fn.arg.t1) >>
    /\ fn.arg.v1 = fn.arg.v2 /\ fn.arg.t1 = fn.arg.t2 =>
          fn.res.a1 = fn.res.a2 /\ fn.res.x1 = fn.res.x2

LatestFailed == obs.latest_status \notin {"", "200"}
DownloadFailed == obs.download_status \notin {"", "200"}
ManifestFailed == chk.fetched \in {"500", "TimeoutError"}
ManifestUnreachable == chk.fetched = "URLError"
\* nothing of the cache or of the install directory has changed in this run
NothingPlaced ==
    /\ obs.extract = 0
    /\ \A p \in DOMAIN fs : p # TmpArchive => fs[p] = pre.fs[p]

\* C28 (as stated): each request is issued at most once in a run, and a
\* transport error or timeout on any of the three aborts the run.
C28_AnyTransportErrorAborts ==
    /\ obs.latest <= 1 /\ obs.download <= 1 /\ obs.manifest <= 1
    /\ LatestFailed \/ DownloadFailed \/ ManifestFailed \/ ManifestUnreachable =>
          pc = "error"

\* C28 (amended): each request is issued at most once in a run; a failed
\* latest-release request or archive download aborts the run with no later
\* step executed, and so does a manifest request that ends in an HTTP status
\* other than 404 or 403 or in a timeout while the body is read; a manifest
\* request that ends in a URL error (no connection, or a timeout while
\* connecting) does not abort the run: it goes on without verification.
C28_NothingRetried ==
    /\ obs.latest <= 1 /\ obs.download <= 1 /\ obs.manifest <= 1
    /\ LatestFailed =>
          /\ pc = "error" /\ err \in {"HTTPError", "URLError"}
          /\ obs.download = 0 /\ obs.manifest = 0 /\ obs.extract = 0
          /\ fs = pre.fs /\ installDirExists = pre.dir
    /\ DownloadFailed =>
          /\ pc = "error" /\ err \in {"HTTPError", "URLError", "ReadError"}
          /\ obs.manifest = 0 /\ obs.sha = 0
          /\ NothingPlaced
    /\ ManifestFailed =>
          /\ pc = "error" /\ err \in {"HTTPError", "TimeoutError"}
          /\ obs.sha = 0
          /\ NothingPlaced
    /\ ManifestUnreachable =>
          /\ err # "URLError"
          /\ chk.expected = NoDigest /\ chk.actual = NoDigest
          /\ pc # "verify"

\* a run whose manifest request ended in a URL error has installed the binary
C28_Witness ==
    /\ ManifestUnreachable
    /\ obs.manifest = 1
    /\ pc = "done"
    /\ Exists(fs[FinalPath(target)])


\* the run has ended in a checksum mismatch
Rejected == pc = "error" /\ err = "ChecksumMismatch"
\* the run follows one that ended in a checksum mismatch
AfterRejected == prev.err = "ChecksumMismatch"
\* the run is installing, or has installed, the extracted binary
Installing == pc \in {"copy", "copying", "chmod_tmp_final", "unlink_final",
                      "rename_final", "return", "done"}

\* C29: a run that ends in a checksum mismatch leaves the rejected download
\* nowhere: its temp file is gone and every other path is as when the run
\* started; so the next run starts from the files of before the rejected
\* download, and where no extracted binary was cached then, it extracts and
\* installs only behind a download of its own that it has accepted.
C29_RejectedArchiveNeverCached ==
    /\ Rejected =>
          /\ ~Exists(fs[TmpArchive])
          /\ \A p \in DOMAIN fs : p # TmpArchive => fs[p] = pre.fs[p]
    /\ AfterRejected =>
          /\ ~Exists(pre.fs[TmpOf(archive_path(prev.tried, HT))])
          /\ \A p \in DOMAIN fs :
                p # TmpOf(archive_path(prev.tried, HT)) => pre.fs[p] = prev.fs[p]
    /\ AfterRejected /\ version # "" /\ (Installing \/ obs.extract > 0) =>
          \/ /\ obs.download = 1
             /\ obs.download_status = "200"
             /\ err # "ChecksumMismatch"
             /\ fs[Archive].st = "full"
          \/ /\ obs.download = 0
             /\ ~call.force_download
             /\ Exists(prev.fs[Extracted])

\* after a rejected download of a version, a run without force for the same
\* version has downloaded again and has installed
C29_Witness ==
    /\ AfterRejected
    /\ prev.tried = version
    /\ ~call.force_download
    /\ pc = "done"
    /\ obs.download = 1


\* C30: a run with force_download that reaches the install has downloaded the
\* archive and extracted the binary in this run, whatever the cache held, and
\* the canonical archive and the cached extracted binary are the ones newly
\* obtained, with no temp file left beside them.
C30_ForceRedownloads ==
    call.force_download /\ Installing =>
        /\ obs.download = 1
        /\ obs.extract = 1
        /\ obs.got \in Archives
        /\ fs[Archive] = [st |-> "full", data |-> obs.got, x |-> FALSE]
        /\ fs[Extracted].st = "full"
        /\ fs[Extracted].data \in BinaryPayloads(obs.got)
        /\ ~Exists(fs[TmpArchive])
        /\ ~Exists(fs[TmpExtracted])

\* a forced run has ended well with the binary of its version cached before,
\* and both the archive and the cached binary are now other ones
C30_Witness ==
    /\ call.force_download
    /\ pc = "done"
    /\ Exists(pre.fs[Extracted])
    /\ Exists(pre.fs[Archive])
    /\ fs[Extracted].data # pre.fs[Extracted].data
    /\ fs[Archive].data # pre.fs[Archive].data


\* the two characters are the same letter or digit, in whatever case
SameLetter(c, d) == c = d \/ {c, d} \in { {"a", "A"}, {"b", "B"} }
\* the two digests differ at most in letter case
SameButCase(x, y) ==
    /\ Len(x) = Len(y)
    /\ \A i \in 1..Len(x) : SameLetter(x[i], y[i])

\* C31: the digest comparison is case-insensitive: an expected digest that
\* differs from the actual one only in letter case passes, and one that
\* differs in any other way (another digit, another length) fails.
C31_CaseInsensitiveCompare ==
    fn.name = "mismatch" =>
        (fn.res <=> ~SameButCase(fn.arg.actual, fn.arg.expected))

C31_Witness ==
    /\ fn.name = "mismatch"
    /\ fn.arg.actual # fn.arg.expected
    /\ SameButCase(fn.arg.actual, fn.arg.expected)
    /\ ~fn.res


\* C32: on POSIX _make_executable sets the owner, group and other execute bits
\* and leaves every other mode bit as it was, so that a second application
\* changes nothing; on Windows the mode is unchanged.
C32_MakeExecutable ==
    fn.name = "make_executable" =>
        /\ fn.arg.nt => fn.res.once = fn.arg.mode
        /\ ~fn.arg.nt =>
              /\ {"S_IXUSR", "S_IXGRP", "S_IXOTH"} \subseteq fn.res.once
              /\ \A b \in ModeBits \ {"S_IXUSR", "S_IXGRP", "S_IXOTH"} :
                    b \in fn.res.once <=> b \in fn.arg.mode
        /\ fn.res.twice = fn.res.once

C32_Witness ==
    /\ fn.name = "make_executable"
    /\ ~fn.arg.nt
    /\ fn.arg.mode = {"S_ISUID", "S_IRUSR", "S_IWUSR", "S_IXGRP"}
    /\ fn.res.once = {"S_ISUID", "S_IRUSR", "S_IWUSR", "S_IXUSR", "S_IXGRP", "S_IXOTH"}


\* the errors a run of install_binary ends in
RunErrors == {"UnsupportedOS", "UnsupportedArch", "HTTPError", "URLError", "ReadError",
              "TimeoutError", "JSONDecodeError", "NoTagName", "ChecksumMismatch",
              "BinaryNotFound", "UnsupportedArchive"}

\* C33: a run that ends in an error leaves the file at the final install path,
\* and its temp sibling, exactly as they were before the run.
C33_ErrorKeepsInstalledBinary ==
    pc = "error" =>
        /\ err \in RunErrors
        /\ fs[FinalPath(HT)] = pre.fs[FinalPath(HT)]
        /\ fs[TmpFinalPath(HT)] = pre.fs[TmpFinalPath(HT)]

\* a run has failed on a checksum mismatch with a binary installed before
C33_Witness ==
    /\ pc = "error"
    /\ err = "ChecksumMismatch"
    /\ fs[FinalPath(HT)].st = "full"
    /\ fs[FinalPath(HT)] = pre.fs[FinalPath(HT)]


\* the run reuses the binary the preceding run cached for the same version
ReusesPrev == prev.ok /\ prev.version = version /\ obs.download = 0

\* C34: a successful run with verification enabled installs a binary whose
\* archive was compared with the digest the manifest lists: by this run, or,
\* where the binary comes from the cache of the preceding run, by that run;
\* in particular not one cached by a run made with verification disabled.
C34_VerifiedRunInstallsVerified ==
    pc = "done" /\ VerifyEnabled =>
        \/ obs.sha = 1
        \/ obs.manifest = 1 /\ ~Truthy(chk.expected)
        \/ ReusesPrev /\ prev.compared
        \/ ~ReusesPrev /\ obs.download = 0


\* the fetched manifest holds an entry for the asset: the parser returned a
\* digest text, possibly the empty one
EntryFound == chk.fetched = "200" /\ chk.expected.some

\* C35: when the fetched manifest holds a block entry for the asset, a run with
\* verification enabled goes on to extraction only behind a comparison of the
\* archive's digest with that entry, whatever follows "sha256:".
C35_BlockEntryAlwaysCompared ==
    EntryFound /\ pc # "error" => chk.actual.some /\ obs.sha = 1


\* the run has ended, well or in an error
Ended == pc \in {"done", "error"}

\* C36: at the end of every run, where both the canonical archive and the
\* extracted binary of a version exist, the extracted binary is the binary
\* entry of that archive.
C36_CacheCoherent ==
    Ended =>
        \A v \in Versions :
            LET arch == fs[archive_path(v, HT)]
                bin == fs[extracted_path(v, HT)]
            IN  Exists(arch) /\ Exists(bin) =>
                   /\ Candidate(arch.data, HT).found
                   /\ bin.data = Candidate(arch.data, HT).payload


\* the download of the run failed, or the process died while it streamed
DownloadBroken ==
    \/ pc = "error" /\ DownloadFailed
    \/ pc = "crashed" /\ at = "streaming"

\* C37: a failed or interrupted archive download leaves the canonical archive
\* and the cached extracted binary of the version, and every other file but the
\* temp archive, as they were, the temp archive alone holding what was written;
\* and a run that downloads has removed the temp archive it found before it
\* writes, so that what it verifies is its own download.
C37_BrokenDownloadOnlyLeavesTmp ==
    /\ DownloadBroken =>
          /\ fs[Archive] = pre.fs[Archive]
          /\ fs[Extracted] = pre.fs[Extracted]
          /\ \A p \in DOMAIN fs : p # TmpArchive => fs[p] = pre.fs[p]
          /\ fs[TmpArchive].st \in {"absent", "partial"}
    /\ pc = "download" => ~Exists(fs[TmpArchive])
    /\ pc = "verify" => fs[TmpArchive] = [st |-> "full", data |-> obs.got, x |-> FALSE]

\* a run is about to download, and has removed the partial temp archive that a
\* broken download had left
C37_Witness ==
    /\ pc = "download"
    /\ pre.fs[TmpArchive].st = "partial"
    /\ ~Exists(fs[TmpArchive])


\* C38 (as stated): when a run has succeeded, neither the temp archive nor the
\* temp file of the extracted binary exists in the version directory, nor the
\* temp file of the binary in the install directory.
C38_NoTempFileAfterSuccess ==
    pc = "done" =>
        /\ ~Exists(fs[TmpArchive])
        /\ ~Exists(fs[TmpExtracted])
        /\ ~Exists(fs[TmpFinalPath(HT)])


\* the run is the install command (not forced) that follows an uninstall, which
\* in turn followed a successful run for the version this run has resolved
Reinstall ==
    /\ cli.cmd = "install"
    /\ cli.was.version # ""
    /\ version = cli.was.version
    /\ ~call.force_download

\* C39: after a successful install of a version and an uninstall that left the
\* cache, an unforced install of that version neither downloads nor extracts,
\* does not fail, and ends with the cached binary at the install path; after an
\* uninstall that emptied the cache, the install downloads and extracts before
\* it installs.
C39_ReinstallAfterUninstall ==
    /\ Reinstall /\ ~cli.was.clean =>
          /\ obs.download = 0 /\ obs.extract = 0 /\ obs.manifest = 0
          /\ pc # "error"
          /\ pc = "done" =>
                /\ Final.st = "full" /\ Final.data = fs[Extracted].data
                /\ ~Exists(pre.fs[FinalPath(HT)])
    /\ Reinstall /\ cli.was.clean =>
          /\ ~Exists(pre.fs[Extracted]) /\ ~Exists(pre.fs[Archive])
          /\ Installing => obs.download = 1 /\ obs.extract = 1

\* an install has put the binary back from the cache after an uninstall
C39_Witness ==
    /\ Reinstall /\ ~cli.was.clean
    /\ pc = "done"
    /\ obs.download = 0
    /\ Final.st = "full"


\* C40: a run that is left to run ends: from every position inside
\* install_binary it reaches the return of the triple or an exception, the
\* download loop included, which is left at the empty chunk.
C40_RunTerminates == Running ~> Ended

\* a run has returned its triple after its download loop was left at the empty
\* chunk
C40_Witness ==
    /\ pc = "done"
    /\ obs.download = 1
    /\ obs.got \in Archives
    /\ obs.chunks = 0
====
